---- MODULE Spec2Model ----
(***************************************************************************)
(* Model of DkCardanoCli (src/src/cardano-cli.ts, lines 1-506): the        *)
(* flag-grammar encoders of `transaction build-raw`, the orchestration of  *)
(* BuildRawTransactionAsync over the file-storage and command-runner       *)
(* collaborators, and the parser of the `query utxo` listing.              *)
(*                                                                         *)
(* A JavaScript string is a sequence of atoms.  An atom is either one      *)
(* character of the grammar (" ", "+", "#", a quote, a line feed, ...) or   *)
(* an opaque word without whitespace or grammar characters (a flag name,   *)
(* an address, a hash, a path, the decimal digits of a number).  trim,     *)
(* split, join, slice and includes act on atoms as they act on characters. *)
(***************************************************************************)
EXTENDS Integers, Sequences, FiniteSets, TLC

VARIABLES
    \* BuildRawTransactionAsync: one call against the two collaborators
    pc,          \* position of the call: which await it stands before
    era,         \* this.era, fixed by the constructor
    buildOption, \* the fields of the descriptor (`option`) read so far
    frags,       \* the local constants txInOption, txOutOption, ...
    writes,      \* DkFiles.WriteFileOrThrowAsync calls issued, in order
    cmds,        \* Cmd.RunAsync commands issued, in order
    error,       \* "none", or the kind of error the call rejected with
    ret,         \* the value the call resolved with
    \* _BuildTxOutOption applied to a list of outputs
    txOuts, txOutRes,
    \* _BuildMintOptionAsync applied to a list of mint actions
    mintOptions, mintRes,
    \* QueryUtxoAsync: the UTXO set the node holds, the stdout of `query
    \* utxo`, and what the call returned
    ledger, utxo_raw, utxos,
    \* QueryWalletInfoAsync: the balance summed over the records of utxos
    balance,
    \* QueryUtxoAsync applied to a listing derived from an encoded output
    reparsed,
    \* DkCardanoHelper.Utxo2Balance applied to the records of utxos
    utxo2balance,
    \* a component encoder applied on its own: which encoder, to which list,
    \* and what it returned
    component, componentRes

vars == <<pc, era, buildOption, frags, writes, cmds, error, ret,
          txOuts, txOutRes, mintOptions, mintRes, ledger, utxo_raw, utxos,
          balance, reparsed, utxo2balance, component, componentRes>>

buildVars == <<pc, era, buildOption, frags, writes, cmds, error, ret>>
txOutVars == <<txOuts, txOutRes>>
mintVars  == <<mintOptions, mintRes>>
utxoVars  == <<ledger, utxo_raw, utxos, balance, reparsed>>
moreVars  == <<utxo2balance, component, componentRes>>

(***************************************************************************)
(* Bounds of the model.                                                    *)
(***************************************************************************)
MaxTxOuts == 2
MaxMints  == 2
MaxRows   == 2

(***************************************************************************)
(* Program constants.                                                      *)
(***************************************************************************)
LOVELACE     == "lovelace"
EMPTY_STRING == <<>>
SPACE        == " "
LINE_FEED    == "\n"

(***************************************************************************)
(* JavaScript strings as atom sequences.                                   *)
(***************************************************************************)
\* `${s}` for a string value s: the empty string contributes no character
Str(s) == IF s = "" THEN <<>> ELSE <<s>>

\* `${n}` for an integer n
Num(n) == <<ToString(n)>>

\* `${r.f}` for an optional string property: a missing one prints "undefined"
Interp(r, f) == IF f \in DOMAIN r THEN Str(r[f]) ELSE <<"undefined">>

\* JavaScript truthiness of an optional string property
Truthy(r, f) == f \in DOMAIN r /\ r[f] # ""

\* JavaScript truthiness of an optional numeric property
TruthyNum(r, f) == f \in DOMAIN r /\ r[f] # 0

IsSpace(a) == a \in {" ", "\n", "\t"}

RECURSIVE trimStart(_)
trimStart(s) ==
    IF s # <<>> /\ IsSpace(Head(s)) THEN trimStart(Tail(s)) ELSE s

RECURSIVE trimEnd(_)
trimEnd(s) ==
    IF s # <<>> /\ IsSpace(s[Len(s)]) THEN trimEnd(SubSeq(s, 1, Len(s) - 1)) ELSE s

trim(s) == trimEnd(trimStart(s))

\* slice1 with the slice forgotten: the leading separator stays
slice1_Kept(s) == s

\* s.slice(1): every atom sliced in the model is one character
slice1(s) == IF s = <<>> THEN <<>> ELSE Tail(s)

(***************************************************************************)
(* Asset bundles: a JavaScript object used as a map keeps its string keys  *)
(* in insertion order, so a bundle is a sequence of <<asset, quantity>>    *)
(* pairs with distinct assets.                                             *)
(***************************************************************************)
HasKey(b, k) == \E i \in 1..Len(b) : b[i][1] = k

Get(b, k) == b[CHOOSE i \in 1..Len(b) : b[i][1] = k][2]

\* !obj[k] for a numeric map: the key is missing or its value is 0
Falsy(b, k) == ~HasKey(b, k) \/ Get(b, k) = 0

(***************************************************************************)
(* _BuildTxOutOption  (cardano-cli.ts 369-399, helper.ts 39-69)            *)
(***************************************************************************)
\* the inner loop leaving out the assets of quantity zero
RECURSIVE nonAdaAssetOption_SkipZero(_, _, _)
nonAdaAssetOption_SkipZero(b, i, acc) ==
    IF i > Len(b) THEN acc
    ELSE nonAdaAssetOption_SkipZero(b, i + 1,
            IF b[i][1] # LOVELACE /\ b[i][2] # 0
            THEN acc \o <<"+">> \o <<ToString(b[i][2])>> \o <<" ">> \o <<b[i][1]>>
            ELSE acc)

\* the inner loop `for (const asset in txOutOption._asset2quantity)`
RECURSIVE nonAdaAssetOption(_, _, _)
nonAdaAssetOption(b, i, acc) ==
    IF i > Len(b) THEN acc
    ELSE nonAdaAssetOption(b, i + 1,
            IF b[i][1] # LOVELACE
            THEN acc \o <<"+">> \o Num(b[i][2]) \o <<" ">> \o Str(b[i][1])
            ELSE acc)

\* one iteration of the outer loop, the lovelace check already passed
TxOutStep(result, txOutOption) ==
    LET b    == txOutOption._asset2quantity
        r1   == result \o <<" ", "--tx-out", " ">> \o Str(txOutOption._address)
                       \o <<"+">> \o Num(Get(b, LOVELACE))
        nonA == nonAdaAssetOption(b, 1, EMPTY_STRING)
        r2   == IF nonA # EMPTY_STRING
                THEN r1 \o <<"+", "\"">> \o slice1(nonA) \o <<"\"">>
                ELSE r1
    IN  IF Truthy(txOutOption, "_datumHash")
        THEN r2 \o <<" ", "--tx-out-datum-hash", " ">> \o Str(txOutOption._datumHash)
        ELSE r2

\* the guard `if (!txOutOption._asset2quantity[LOVELACE]) throw`
MustSendSomeLovelaces(txOutOption) == Falsy(txOutOption._asset2quantity, LOVELACE)

RECURSIVE TxOutLoop(_, _, _)
TxOutLoop(outs, index, result) ==
    IF index > Len(outs) THEN [err |-> "none", out |-> trimStart(result)]
    ELSE IF MustSendSomeLovelaces(outs[index])
         THEN [err |-> "validation", out |-> EMPTY_STRING]
         ELSE TxOutLoop(outs, index + 1, TxOutStep(result, outs[index]))

_BuildTxOutOption(outs) == TxOutLoop(outs, 1, EMPTY_STRING)

(***************************************************************************)
(* The file-storage collaborator.  An encoder carries                      *)
(*   out    : the string built so far (`result`),                          *)
(*   writes : the DkFiles.WriteFileOrThrowAsync calls it issued, in order, *)
(*   err    : "none", "validation" (a thrown Error) or "file" (the         *)
(*            collaborator rejected).                                      *)
(* failAt is the ordinal of the write of this encoder call that the        *)
(* collaborator rejects (0: none); after an error nothing more runs.       *)
(***************************************************************************)
UNDEFINED == "undefined"
NULL      == "null"

\* the number NaN: an integer no quantity or index of the model reaches
NaN == -1000000

\* the value of an optional string property, as passed to a collaborator
Prop(r, f) == IF f \in DOMAIN r THEN r[f] ELSE UNDEFINED

NewAcc == [out |-> EMPTY_STRING, writes |-> <<>>, err |-> "none"]

Throw(acc, kind) == [acc EXCEPT !.err = kind]

\* the write not made: the encoder goes on without it
WriteFileOrThrowAsync_Dropped(acc, path, content, failAt) == acc

\* the rejection of the collaborator swallowed
WriteFileOrThrowAsync_Swallowed(acc, path, content, failAt) ==
    [acc EXCEPT !.writes = Append(@, [path |-> path, content |-> content,
                                      ok |-> failAt # Len(acc.writes) + 1])]

\* await DkFiles.WriteFileOrThrowAsync(path, content)
WriteFileOrThrowAsync(acc, path, content, failAt) ==
    LET failed == failAt = Len(acc.writes) + 1
    IN  [acc EXCEPT !.writes = Append(@, [path |-> path, content |-> content,
                                          ok |-> ~failed]),
                    !.err = IF failed THEN "file" ELSE "none"]

\* result += text
Emit(acc, text) == [acc EXCEPT !.out = @ \o text]

\* "(${option._executionUnits[0]},${option._executionUnits[1]})" in quotes
ExecutionUnits(option) ==
    <<"\"", "(">> \o Num(option._executionUnits[1]) \o <<",">>
                  \o Num(option._executionUnits[2]) \o <<")", "\"">>

\* the three optional flags every scripted component ends with
DatumRedeemerUnits(acc, option, datumFlag, redeemerFlag, unitsFlag) ==
    LET a1 == IF Truthy(option, "_datum")
              THEN Emit(acc, <<" ", datumFlag, " ", "'">> \o Str(option._datum) \o <<"'">>)
              ELSE acc
        a2 == IF Truthy(option, "_redeemer")
              THEN Emit(a1, <<" ", redeemerFlag, " ", "'">> \o Str(option._redeemer) \o <<"'">>)
              ELSE a1
    IN  IF "_executionUnits" \in DOMAIN option
        THEN Emit(a2, <<" ", unitsFlag, " ">> \o ExecutionUnits(option))
        ELSE a2

(***************************************************************************)
(* _BuildTxInOptionAsync  (cardano-cli.ts 337-363, helper.ts 7-33)         *)
(***************************************************************************)
\* `if (!option._script._outFilePath || !option._script._outContent) throw`
ScriptPairMissing(script) ==
    ~Truthy(script, "_outFilePath") \/ ~Truthy(script, "_outContent")

\* TxInStep with the script written and named after the datum, redeemer
\* and execution units
TxInStep_ScriptLast(acc, option, isCollateral, failAt) ==
    LET a0 == Emit(acc, <<" ", "--tx-in" \o (IF isCollateral THEN "-collateral" ELSE ""), " ">>
                        \o Str(option._txHash) \o <<"#">> \o Num(option._txIndex))
        a1 == DatumRedeemerUnits(a0, option, "--tx-in-datum-value",
                                 "--tx-in-redeemer-value", "--tx-in-execution-units")
    IN  IF "_script" \in DOMAIN option
        THEN IF ScriptPairMissing(option._script)
             THEN Throw(a1, "validation")
             ELSE LET w == WriteFileOrThrowAsync(a1, option._script._outFilePath,
                                                 option._script._outContent, failAt)
                  IN  IF w.err # "none" THEN w
                      ELSE Emit(w, <<" ", "--tx-in-script-file", " ">>
                                   \o Str(option._script._outFilePath))
        ELSE a1

TxInStep(acc, option, isCollateral, failAt) ==
    LET a0 == Emit(acc, <<" ", "--tx-in" \o (IF isCollateral THEN "-collateral" ELSE ""), " ">>
                        \o Str(option._txHash) \o <<"#">> \o Num(option._txIndex))
        a1 == IF "_script" \in DOMAIN option
              THEN IF ScriptPairMissing(option._script)
                   THEN Throw(a0, "validation")
                   ELSE LET w == WriteFileOrThrowAsync(a0, option._script._outFilePath,
                                                       option._script._outContent, failAt)
                        IN  IF w.err # "none" THEN w
                            ELSE Emit(w, <<" ", "--tx-in-script-file", " ">>
                                         \o Str(option._script._outFilePath))
              ELSE a0
    IN  IF a1.err # "none" THEN a1
        ELSE DatumRedeemerUnits(a1, option, "--tx-in-datum-value",
                                "--tx-in-redeemer-value", "--tx-in-execution-units")

RECURSIVE TxInLoop(_, _, _, _, _)
TxInLoop(txIns, i, acc, isCollateral, failAt) ==
    IF acc.err # "none" THEN [acc EXCEPT !.out = EMPTY_STRING]
    ELSE IF i > Len(txIns) THEN [acc EXCEPT !.out = trimStart(@)]
    ELSE TxInLoop(txIns, i + 1, TxInStep(acc, txIns[i], isCollateral, failAt),
                  isCollateral, failAt)

_BuildTxInOptionAsync(txIns, isCollateral, failAt) ==
    TxInLoop(txIns, 1, NewAcc, isCollateral, failAt)

(***************************************************************************)
(* _BuildMintOptionAsync  (cardano-cli.ts 401-437, helper.ts 71-107)       *)
(***************************************************************************)
\* const ok = (action == "mint" || action == "burn") && assetId && quantity
MintOk(option) ==
    /\ Prop(option, "_action") \in {"mint", "burn"}
    /\ Truthy(option, "_assetId")
    /\ TruthyNum(option, "_assetQuantity")

\* MintTerm with the separator appended after the last term as well
MintTerm_TrailingPlus(option, index, lastIndex) ==
    (IF option._action = "mint" THEN <<>> ELSE <<"-">>)
        \o Num(option._assetQuantity) \o <<" ">> \o Str(option._assetId) \o <<"+">>

\* one term of the quoted list, with its separator
MintTerm(option, index, lastIndex) ==
    (IF option._action = "mint" THEN <<>> ELSE <<"-">>)
        \o Num(option._assetQuantity) \o <<" ">> \o Str(option._assetId)
        \o (IF index < lastIndex THEN <<"+">> ELSE <<>>)

\* first loop: validate and append each term; index counts from 1
RECURSIVE MintTermLoop(_, _, _)
MintTermLoop(options, index, acc) ==
    IF acc.err # "none" \/ index > Len(options) THEN acc
    ELSE MintTermLoop(options, index + 1,
            IF ~MintOk(options[index]) THEN Throw(acc, "validation")
            ELSE Emit(acc, MintTerm(options[index], index, Len(options))))

\* MintScriptStep with the redeemer flag left out
MintScriptStep_NoRedeemer(acc, option) ==
    LET a0 == Emit(acc, <<" ", "--mint-script-file", " ">>
                        \o Interp(option, "_policyScriptFilePath"))
    IN  IF "_executionUnits" \in DOMAIN option
        THEN Emit(a0, <<" ", "--mint-execution-units", " ">> \o ExecutionUnits(option))
        ELSE a0

MintScriptStep(acc, option) ==
    LET a0 == Emit(acc, <<" ", "--mint-script-file", " ">>
                        \o Interp(option, "_policyScriptFilePath"))
        a1 == IF Truthy(option, "_redeemer")
              THEN Emit(a0, <<" ", "--mint-redeemer-value", " ", "'">>
                            \o Str(option._redeemer) \o <<"'">>)
              ELSE a0
    IN  IF "_executionUnits" \in DOMAIN option
        THEN Emit(a1, <<" ", "--mint-execution-units", " ">> \o ExecutionUnits(option))
        ELSE a1

\* second loop: the per-action script flags
RECURSIVE MintScriptLoop(_, _, _)
MintScriptLoop(options, index, acc) ==
    IF index > Len(options) THEN acc
    ELSE MintScriptLoop(options, index + 1, MintScriptStep(acc, options[index]))

_BuildMintOptionAsync(options) ==
    LET terms == MintTermLoop(options, 1, Emit(NewAcc, <<"--mint=", "\"">>))
    IN  IF terms.err # "none" THEN [terms EXCEPT !.out = EMPTY_STRING]
        ELSE MintScriptLoop(options, 1,
                            [terms EXCEPT !.out = trimEnd(@) \o <<"\"">>])

(***************************************************************************)
(* _BuildWithdrawalOptionAsync  (cardano-cli.ts 439-462)                   *)
(***************************************************************************)
\* WithdrawalStep with the optional flags of an entry left out
WithdrawalStep_Bare(acc, option, failAt) ==
    Emit(acc, <<" ", "--withdrawal", " ">> \o Str(option._stakingAddress)
              \o <<"+">> \o Num(option._reward))

WithdrawalStep(acc, option, failAt) ==
    LET a0 == Emit(acc, <<" ", "--withdrawal", " ">> \o Str(option._stakingAddress)
                        \o <<"+">> \o Num(option._reward))
        a1 == IF Truthy(option, "_scriptOutContent")
              THEN LET w == WriteFileOrThrowAsync(a0, Prop(option, "_scriptOutFilePath"),
                                                  option._scriptOutContent, failAt)
                   IN  IF w.err # "none" THEN w
                       ELSE Emit(w, <<" ", "--withdrawal-script-file", " ">>
                                    \o Interp(option, "_scriptOutFilePath"))
              ELSE a0
    IN  IF a1.err # "none" THEN a1
        ELSE DatumRedeemerUnits(a1, option, "--withdrawal-script-datum-value",
                                "--withdrawal-script-redeemer-value",
                                "--withdrawal-execution-units")

RECURSIVE WithdrawalLoop(_, _, _, _)
WithdrawalLoop(options, i, acc, failAt) ==
    IF acc.err # "none" THEN [acc EXCEPT !.out = EMPTY_STRING]
    ELSE IF i > Len(options) THEN [acc EXCEPT !.out = trim(@)]
    ELSE WithdrawalLoop(options, i + 1, WithdrawalStep(acc, options[i], failAt), failAt)

_BuildWithdrawalOptionAsync(options, failAt) ==
    WithdrawalLoop(options, 1, NewAcc, failAt)

(***************************************************************************)
(* _BuildCertOptionAsync  (cardano-cli.ts 464-486)                         *)
(***************************************************************************)
CertStep(acc, option, failAt) ==
    LET a0 == Emit(acc, <<" ", "--certificate", " ">> \o Str(option._cert))
        a1 == IF "_script" \in DOMAIN option
              THEN LET w == WriteFileOrThrowAsync(a0, Prop(option._script, "_outFilePath"),
                                                  Prop(option._script, "_outContent"), failAt)
                   IN  IF w.err # "none" THEN w
                       ELSE Emit(w, <<" ", "--certificate-script-file", " ">>
                                    \o Interp(option._script, "_outFilePath"))
              ELSE a0
    IN  IF a1.err # "none" THEN a1
        ELSE DatumRedeemerUnits(a1, option, "--certificate-script-datum-value",
                                "--certificate-script-redeemer-value",
                                "--certificate-execution-units")

RECURSIVE CertLoop(_, _, _, _)
CertLoop(options, i, acc, failAt) ==
    IF acc.err # "none" THEN [acc EXCEPT !.out = EMPTY_STRING]
    ELSE IF i > Len(options) THEN [acc EXCEPT !.out = trim(@)]
    ELSE CertLoop(options, i + 1, CertStep(acc, options[i], failAt), failAt)

_BuildCertOptionAsync(options, failAt) == CertLoop(options, 1, NewAcc, failAt)

(***************************************************************************)
(* _BuildMetadataOptionAsync  (cardano-cli.ts 488-494)                     *)
(***************************************************************************)
_BuildMetadataOptionAsync(option, failAt) ==
    LET w == WriteFileOrThrowAsync(NewAcc, Prop(option, "_metadataOutFilePath"),
                                   Prop(option, "_metadataOutContent"), failAt)
    IN  IF w.err # "none" THEN w
        ELSE Emit(w, <<"--metadata-json-file", " ">>
                     \o Interp(option, "_metadataOutFilePath"))

(***************************************************************************)
(* _BuildAuxScriptOptionAsync  (cardano-cli.ts 496-505)                    *)
(***************************************************************************)
AuxScriptStep(acc, option, failAt) ==
    LET w == WriteFileOrThrowAsync(acc, Prop(option._script, "_outFilePath"),
                                   Prop(option._script, "_outContent"), failAt)
    IN  IF w.err # "none" THEN w
        ELSE Emit(w, <<" ", "--auxiliary-script-file", " ">>
                     \o Interp(option._script, "_outFilePath"))

RECURSIVE AuxScriptLoop(_, _, _, _)
AuxScriptLoop(options, i, acc, failAt) ==
    IF acc.err # "none" THEN [acc EXCEPT !.out = EMPTY_STRING]
    ELSE IF i > Len(options) THEN [acc EXCEPT !.out = trimStart(@)]
    ELSE AuxScriptLoop(options, i + 1, AuxScriptStep(acc, options[i], failAt), failAt)

_BuildAuxScriptOptionAsync(options, failAt) == AuxScriptLoop(options, 1, NewAcc, failAt)

(***************************************************************************)
(* Descriptors the caller may hand to BuildRawTransactionAsync.  A missing *)
(* optional property is a field the record does not have.                  *)
(***************************************************************************)
goodScript  == [_outFilePath |-> "in.plutus", _outContent |-> "code"]
pathOnly    == [_outFilePath |-> "half.plutus"]
contentOnly == [_outContent |-> "code"]

inPlain     == [_txHash |-> "h1", _txIndex |-> 0]
inScript    == [_txHash |-> "h2", _txIndex |-> 1, _script |-> goodScript,
                _datum |-> "d", _redeemer |-> "r", _executionUnits |-> <<10, 20>>]
inBadScript == [_txHash |-> "h3", _txIndex |-> 2, _script |-> pathOnly]

outAda    == [_address |-> "addr1", _asset2quantity |-> <<<<LOVELACE, 5>>>>]
outMulti  == [_address |-> "addr2",
              _asset2quantity |-> <<<<"p1.a", 2>>, <<LOVELACE, 7>>, <<"p2.b", 1>>>>,
              _datumHash |-> "dh"]
outNoAda  == [_address |-> "addr3", _asset2quantity |-> <<<<"p1.a", 2>>>>]

mintA   == [_action |-> "mint", _assetId |-> "p1.a", _assetQuantity |-> 5,
            _policyScriptFilePath |-> "p1.script"]
burnB   == [_action |-> "burn", _assetId |-> "p2.b", _assetQuantity |-> 2,
            _policyScriptFilePath |-> "p2.script", _redeemer |-> "r",
            _executionUnits |-> <<1, 2>>]
mintBad == [_action |-> "melt", _assetId |-> "p1.a", _assetQuantity |-> 5,
            _policyScriptFilePath |-> "p1.script"]

wdPlain       == [_stakingAddress |-> "stake1", _reward |-> 3]
wdScript      == [_stakingAddress |-> "stake2", _reward |-> 4,
                  _scriptOutFilePath |-> "wd.plutus", _scriptOutContent |-> "code",
                  _redeemer |-> "r"]
wdPathOnly    == [_stakingAddress |-> "stake3", _reward |-> 5,
                  _scriptOutFilePath |-> "half.plutus"]
wdContentOnly == [_stakingAddress |-> "stake4", _reward |-> 6,
                  _scriptOutContent |-> "code"]

certScript      == [_cert |-> "stake.cert",
                    _script |-> [_outFilePath |-> "cert.plutus", _outContent |-> "code"],
                    _datum |-> "d"]
certContentOnly == [_cert |-> "pool.cert", _script |-> contentOnly]

metaGood == [_metadataOutFilePath |-> "meta.json", _metadataOutContent |-> "json"]

auxGood     == [_script |-> [_outFilePath |-> "aux.plutus", _outContent |-> "code"]]
auxPathOnly == [_script |-> pathOnly]

\* no value yet: a call that has not returned
ABSENT == "absent"

\* the values of each property the caller may supply; every optional one may
\* also be left out

TxInsChoices       == {<<>>, <<inPlain>>, <<inScript>>, <<inScript, inBadScript>>}
TxOutsChoices      == {<<outAda>>, <<outMulti, outAda>>, <<outAda, outNoAda>>}
CollateralChoices  == {<<inScript>>, <<inBadScript>>}
MintChoices        == {<<>>, <<mintA, burnB>>, <<mintA, mintBad>>}
WithdrawalChoices  == {<<wdPlain, wdScript>>, <<wdPathOnly>>, <<wdContentOnly>>}
CertChoices        == {<<certScript>>, <<certContentOnly>>}
MetadataChoices    == {metaGood}
AuxScriptChoices   == {<<auxGood>>, <<auxPathOnly>>}
ValidityChoices    ==
    { [_fee |-> 0],
      [_fee |-> 170, _scriptInvalid |-> TRUE, _invalidBefore |-> 7, _invalidAfter |-> 9],
      [_fee |-> 170, _scriptInvalid |-> FALSE, _invalidBefore |-> 0, _invalidAfter |-> 9],
      [_fee |-> 170, _invalidAfter |-> 0] }
EraChoices         == { [_cliPath |-> "cardano-cli"],
                        [_cliPath |-> "cardano-cli", _era |-> ""],
                        [_cliPath |-> "cardano-cli", _era |-> NULL],
                        [_cliPath |-> "cardano-cli", _era |-> "--mary-era"] }

txRawBodyOutFilePath       == "tx.raw"
protocolParametersFilePath == "pp.json"

(***************************************************************************)
(* constructor  (cardano-cli.ts 27-31): this.era = option._era ??          *)
(* "--alonzo-era"                                                          *)
(***************************************************************************)
\* the constructor of the earlier variant: this.era = option._era ?? ""
Constructor_EmptyDefault(o) ==
    IF "_era" \in DOMAIN o /\ o._era # NULL THEN o._era ELSE ""

Constructor(o) ==
    IF "_era" \in DOMAIN o /\ o._era # NULL THEN o._era ELSE "--alonzo-era"

(***************************************************************************)
(* The command of BuildRawTransactionAsync  (cardano-cli.ts 236-256).      *)
(* Between two fragments the template holds a space, a line continuation   *)
(* (which contributes nothing) and four tabs.                              *)
(***************************************************************************)
Continuation == <<" ", "\t", "\t", "\t", "\t">>

scriptInvalidOption(o) ==
    IF "_scriptInvalid" \in DOMAIN o /\ o._scriptInvalid
    THEN <<"--script-invalid">> ELSE EMPTY_STRING

invalidBeforeOption(o) ==
    IF TruthyNum(o, "_invalidBefore")
    THEN <<"--invalid-before", " ">> \o Num(o._invalidBefore) ELSE EMPTY_STRING

invalidHereAfterOption(o) ==
    IF TruthyNum(o, "_invalidAfter")
    THEN <<"--invalid-hereafter", " ">> \o Num(o._invalidAfter) ELSE EMPTY_STRING

\* BuildRawCommand with the withdrawal fragment placed before the certificates
BuildRawCommand_Swapped(cliPath, e, f, o) ==
    <<"\n", "\t", "\t", "\t">> \o Str(cliPath)
        \o <<" ", "transaction", " ", "build-raw", " ">> \o Str(e)
        \o Continuation \o f.txInOption
        \o Continuation \o f.txOutOption
        \o Continuation \o f.txInCollateralOption
        \o Continuation \o f.withdrawalOption
        \o Continuation \o f.certsOption
        \o Continuation \o f.mintOption
        \o Continuation \o f.auxScriptOpion
        \o Continuation \o f.metadataOption
        \o Continuation \o scriptInvalidOption(o)
        \o Continuation \o invalidBeforeOption(o)
        \o Continuation \o invalidHereAfterOption(o)
        \o Continuation \o <<"--fee", " ">> \o Num(o._fee)
        \o Continuation \o <<"--out-file", " ">> \o Str(txRawBodyOutFilePath)
        \o Continuation \o <<"--protocol-params-file", " ">> \o Str(protocolParametersFilePath)
        \o <<" ", "\t", "\t">>

BuildRawCommand(cliPath, e, f, o) ==
    <<"\n", "\t", "\t", "\t">> \o Str(cliPath)
        \o <<" ", "transaction", " ", "build-raw", " ">> \o Str(e)
        \o Continuation \o f.txInOption
        \o Continuation \o f.txOutOption
        \o Continuation \o f.txInCollateralOption
        \o Continuation \o f.certsOption
        \o Continuation \o f.withdrawalOption
        \o Continuation \o f.mintOption
        \o Continuation \o f.auxScriptOpion
        \o Continuation \o f.metadataOption
        \o Continuation \o scriptInvalidOption(o)
        \o Continuation \o invalidBeforeOption(o)
        \o Continuation \o invalidHereAfterOption(o)
        \o Continuation \o <<"--fee", " ">> \o Num(o._fee)
        \o Continuation \o <<"--out-file", " ">> \o Str(txRawBodyOutFilePath)
        \o Continuation \o <<"--protocol-params-file", " ">> \o Str(protocolParametersFilePath)
        \o <<" ", "\t", "\t">>

(***************************************************************************)
(* BuildRawTransactionAsync  (cardano-cli.ts 227-259), one action per      *)
(* statement that can suspend or throw.                                    *)
(***************************************************************************)
\* a function that has not been applied yet
PENDING == [err |-> "pending"]

idleTxOut == txOuts = <<>> /\ txOutRes = PENDING
idleMint  == mintOptions = <<>> /\ mintRes = PENDING
idleMore  == utxo2balance = PENDING /\ component = <<>> /\ componentRes = PENDING
idleUtxo  ==
    /\ ledger = <<>> /\ utxo_raw = <<>> /\ utxos = PENDING
    /\ balance = PENDING /\ reparsed = PENDING

idleBuild ==
    /\ pc = "idle" /\ era = "" /\ buildOption = <<>> /\ frags = <<>>
    /\ writes = <<>> /\ cmds = <<>> /\ error = "none" /\ ret = ABSENT

Init ==
    /\ pc = "txIns"
    /\ \E o \in EraChoices : era = Constructor(o) /\ buildOption = o
    /\ frags = <<>>
    /\ writes = <<>>
    /\ cmds = <<>>
    /\ error = "none"
    /\ ret = ABSENT
    /\ idleTxOut /\ idleMint /\ idleUtxo /\ idleMore

\* the writes an encoder issues when the collaborator rejects none
NumWrites(r) == Len(r.writes)

\* Completed with the encoder's error caught: the call goes on to the next
\* statement with an empty fragment
Completed_ErrorCaught(field, value, frag, r, next) ==
    /\ buildOption' = buildOption @@ (field :> value)
    /\ writes' = writes \o r.writes
    /\ frags' = frags @@ (frag :> r.out)
    /\ pc' = next
    /\ error' = IF r.err = "none" THEN error ELSE r.err
    /\ UNCHANGED <<moreVars, era, cmds, ret, txOutVars, mintVars, utxoVars>>

\* a statement `const frag = await encoder(option.field)` has run with result r
Completed(field, value, frag, r, next) ==
    /\ buildOption' = buildOption @@ (field :> value)
    /\ writes' = writes \o r.writes
    /\ IF r.err = "none"
       THEN /\ frags' = frags @@ (frag :> r.out)
            /\ pc' = next
            /\ error' = error
       ELSE /\ frags' = frags
            /\ pc' = "rejected"
            /\ error' = r.err
    /\ UNCHANGED <<moreVars, era, cmds, ret, txOutVars, mintVars, utxoVars>>

\* `option.field ? ... : DkConst.EMPTY_STRING` with the property missing
Skipped(frag, next) ==
    /\ frags' = frags @@ (frag :> EMPTY_STRING)
    /\ pc' = next
    /\ UNCHANGED <<moreVars, era, buildOption, writes, cmds, error, ret,
                   txOutVars, mintVars, utxoVars>>

AwaitTxIns ==
    /\ pc = "txIns"
    /\ \E v \in TxInsChoices :
         \E failAt \in 0..NumWrites(_BuildTxInOptionAsync(v, FALSE, 0)) :
            Completed("_txIns", v, "txInOption",
                      _BuildTxInOptionAsync(v, FALSE, failAt), "txOuts")

CallTxOuts ==
    /\ pc = "txOuts"
    /\ \E v \in TxOutsChoices :
         LET r == _BuildTxOutOption(v)
         IN  Completed("_txOuts", v, "txOutOption",
                       [out |-> r.out, err |-> r.err, writes |-> <<>>],
                       "txInCollateralOptions")

AwaitTxInCollateral ==
    /\ pc = "txInCollateralOptions"
    /\ \/ Skipped("txInCollateralOption", "mintOptions")
       \/ \E v \in CollateralChoices :
            \E failAt \in 0..NumWrites(_BuildTxInOptionAsync(v, TRUE, 0)) :
               Completed("_txInCollateralOptions", v, "txInCollateralOption",
                         _BuildTxInOptionAsync(v, TRUE, failAt), "mintOptions")

AwaitMint ==
    /\ pc = "mintOptions"
    /\ \/ Skipped("mintOption", "withdrawalOptions")
       \/ \E v \in MintChoices :
            Completed("_mintOptions", v, "mintOption",
                      _BuildMintOptionAsync(v), "withdrawalOptions")

AwaitWithdrawal ==
    /\ pc = "withdrawalOptions"
    /\ \/ Skipped("withdrawalOption", "certsOption")
       \/ \E v \in WithdrawalChoices :
            \E failAt \in 0..NumWrites(_BuildWithdrawalOptionAsync(v, 0)) :
               Completed("_withdrawalOptions", v, "withdrawalOption",
                         _BuildWithdrawalOptionAsync(v, failAt), "certsOption")

AwaitCerts ==
    /\ pc = "certsOption"
    /\ \/ Skipped("certsOption", "metadataOption")
       \/ \E v \in CertChoices :
            \E failAt \in 0..NumWrites(_BuildCertOptionAsync(v, 0)) :
               Completed("_certsOption", v, "certsOption",
                         _BuildCertOptionAsync(v, failAt), "metadataOption")

AwaitMetadata ==
    /\ pc = "metadataOption"
    /\ \/ Skipped("metadataOption", "auxScriptOptions")
       \/ \E v \in MetadataChoices :
            \E failAt \in 0..1 :
               Completed("_metadataOption", v, "metadataOption",
                         _BuildMetadataOptionAsync(v, failAt), "auxScriptOptions")

AwaitAuxScripts ==
    /\ pc = "auxScriptOptions"
    /\ \/ Skipped("auxScriptOpion", "run")
       \/ \E v \in AuxScriptChoices :
            \E failAt \in 0..NumWrites(_BuildAuxScriptOptionAsync(v, 0)) :
               Completed("_auxScriptOptions", v, "auxScriptOpion",
                         _BuildAuxScriptOptionAsync(v, failAt), "run")

\* await Cmd.RunAsync(`... transaction build-raw ...`): the runner is handed
\* the command and resolves, or rejects with its own error
RunCommand ==
    /\ pc = "run"
    /\ \E v \in ValidityChoices :
         /\ buildOption' = buildOption @@ v
         /\ cmds' = Append(cmds, BuildRawCommand(buildOption._cliPath, era, frags, v))
    /\ \/ pc' = "return" /\ error' = error
       \/ pc' = "rejected" /\ error' = "process"
    /\ UNCHANGED <<moreVars, era, frags, writes, ret, txOutVars, mintVars, utxoVars>>

\* return option._txRawBodyOutFilePath
Return ==
    /\ pc = "return"
    /\ pc' = "done"
    /\ ret' = txRawBodyOutFilePath
    /\ UNCHANGED <<moreVars, era, buildOption, frags, writes, cmds, error,
                   txOutVars, mintVars, utxoVars>>

Next ==
    \/ AwaitTxIns
    \/ CallTxOuts
    \/ AwaitTxInCollateral
    \/ AwaitMint
    \/ AwaitWithdrawal
    \/ AwaitCerts
    \/ AwaitMetadata
    \/ AwaitAuxScripts
    \/ RunCommand
    \/ Return

Spec == Init /\ [][Next]_vars

(***************************************************************************)
(* _BuildTxOutOption on its own: every list of at most MaxTxOuts outputs   *)
(* over the bundles below.                                                 *)
(***************************************************************************)
Lists(S, n) == UNION {[1..k -> S] : k \in 0..n}

\* s with x inserted after its first k elements (at the end when s is shorter)
InsertAt(s, k, x) ==
    LET j == IF k > Len(s) THEN Len(s) ELSE k
    IN  SubSeq(s, 1, j) \o <<x>> \o SubSeq(s, j + 1, Len(s))

OtherAssets == {<<>>, <<<<"p1.a", 2>>>>, <<<<"p2.b", 0>>, <<"p1.a", 13>>>>}
LovelaceQuantities == {-1, 0, 12}

Bundles ==
    OtherAssets \cup
    {InsertAt(b, k, <<LOVELACE, q>>) :
        b \in OtherAssets, k \in 0..2, q \in LovelaceQuantities}

TxOutSet ==
    {[_address |-> "addr1", _asset2quantity |-> b] : b \in Bundles} \cup
    {[_address |-> "addr2", _asset2quantity |-> b, _datumHash |-> "dh"] : b \in Bundles} \cup
    {[_address |-> "addr3", _asset2quantity |-> <<<<LOVELACE, 12>>>>, _datumHash |-> ""]}

InitTxOut ==
    /\ txOuts \in Lists(TxOutSet, MaxTxOuts)
    /\ txOutRes = PENDING
    /\ idleBuild /\ idleMint /\ idleUtxo /\ idleMore

ApplyTxOut ==
    /\ txOutRes = PENDING
    /\ txOutRes' = _BuildTxOutOption(txOuts)
    /\ UNCHANGED <<moreVars, txOuts, buildVars, mintVars, utxoVars>>

NextTxOut == ApplyTxOut

SpecTxOut == InitTxOut /\ [][NextTxOut]_vars

(***************************************************************************)
(* _BuildMintOptionAsync on its own: every list of at most MaxMints        *)
(* actions over the actions below.                                         *)
(***************************************************************************)
MintSet ==
    {[_action |-> a, _assetId |-> id, _assetQuantity |-> q,
      _policyScriptFilePath |-> "p.script"] :
        a \in {"mint", "burn", "melt"}, id \in {"p1.a", ""}, q \in {-2, 0, 5}} \cup
    {[_action |-> a, _assetId |-> "p2.b", _assetQuantity |-> q,
      _policyScriptFilePath |-> "q.script", _redeemer |-> r,
      _executionUnits |-> <<1, 2>>] :
        a \in {"mint", "burn"}, q \in {-2, 3}, r \in {"", "r"}} \cup
    {[_action |-> a, _assetId |-> "p3.c", _assetQuantity |-> 4,
      _policyScriptFilePath |-> "r.script", _redeemer |-> "r"] :
        a \in {"mint", "burn"}} \cup
    {[_action |-> "mint", _assetId |-> "p1.a", _policyScriptFilePath |-> "p.script"],
     [_action |-> "burn", _assetQuantity |-> 5, _policyScriptFilePath |-> "p.script"],
     [_assetId |-> "p1.a", _assetQuantity |-> 5, _policyScriptFilePath |-> "p.script"]}

InitMint ==
    /\ mintOptions \in Lists(MintSet, MaxMints)
    /\ mintRes = PENDING
    /\ idleBuild /\ idleTxOut /\ idleUtxo /\ idleMore

ApplyMint ==
    /\ mintRes = PENDING
    /\ mintRes' = _BuildMintOptionAsync(mintOptions)
    /\ UNCHANGED <<moreVars, mintOptions, buildVars, txOutVars, utxoVars>>

NextMint == ApplyMint

SpecMint == InitMint /\ [][NextMint]_vars

(***************************************************************************)
(* Reading a command back: the flags of build-raw and the group of the     *)
(* grammar each belongs to.                                                *)
(***************************************************************************)
\* ss[1] sep ss[2] sep ... ss[n]
RECURSIVE JoinWith(_, _)
JoinWith(ss, sep) ==
    IF ss = <<>> THEN <<>>
    ELSE IF Len(ss) = 1 THEN ss[1]
    ELSE ss[1] \o sep \o JoinWith(Tail(ss), sep)

\* flags that open or belong to exactly one group
FlagGroup ==
    [f \in {"--tx-in", "--tx-out", "--tx-out-datum-hash", "--tx-in-collateral",
            "--certificate", "--certificate-script-file",
            "--certificate-script-datum-value", "--certificate-script-redeemer-value",
            "--certificate-execution-units",
            "--withdrawal", "--withdrawal-script-file",
            "--withdrawal-script-datum-value", "--withdrawal-script-redeemer-value",
            "--withdrawal-execution-units",
            "--mint=", "--mint-script-file", "--mint-redeemer-value",
            "--mint-execution-units",
            "--auxiliary-script-file", "--metadata-json-file", "--script-invalid",
            "--invalid-before", "--invalid-hereafter", "--fee", "--out-file",
            "--protocol-params-file"} |->
        CASE f = "--tx-in" -> 1
          [] f \in {"--tx-out", "--tx-out-datum-hash"} -> 2
          [] f = "--tx-in-collateral" -> 3
          [] f \in {"--certificate", "--certificate-script-file",
                    "--certificate-script-datum-value",
                    "--certificate-script-redeemer-value",
                    "--certificate-execution-units"} -> 4
          [] f \in {"--withdrawal", "--withdrawal-script-file",
                    "--withdrawal-script-datum-value",
                    "--withdrawal-script-redeemer-value",
                    "--withdrawal-execution-units"} -> 5
          [] f \in {"--mint=", "--mint-script-file", "--mint-redeemer-value",
                    "--mint-execution-units"} -> 6
          [] f = "--auxiliary-script-file" -> 7
          [] f = "--metadata-json-file" -> 8
          [] f = "--script-invalid" -> 9
          [] f = "--invalid-before" -> 10
          [] f = "--invalid-hereafter" -> 11
          [] f = "--fee" -> 12
          [] f = "--out-file" -> 13
          [] OTHER -> 14]

\* flags an input and a collateral input share: they belong to the group of
\* the input they follow
InputFlags == {"--tx-in-script-file", "--tx-in-datum-value",
               "--tx-in-redeemer-value", "--tx-in-execution-units"}

EraMarkers == {"--alonzo-era", "--mary-era"}

IsFlag(a) == a \in EraMarkers \cup DOMAIN FlagGroup \cup InputFlags

\* the group of the i-th flag of the flag sequence f; an input flag that
\* follows no input gets the group 100, which nothing may follow
GroupAt(f, i) ==
    IF f[i] \in EraMarkers THEN 0
    ELSE IF f[i] \in DOMAIN FlagGroup THEN FlagGroup[f[i]]
    ELSE LET before == {j \in 1..(i - 1) : f[j] \notin InputFlags}
         IN  IF before = {} THEN 100
             ELSE LET last == CHOOSE j \in before : \A k \in before : k <= j
                      g    == IF f[last] \in EraMarkers THEN 0 ELSE FlagGroup[f[last]]
                  IN  IF g \in {1, 3} THEN g ELSE 100

\* the groups of the flags of cmd, in the order the flags appear
GroupsOf(cmd) ==
    LET f == SelectSeq(cmd, IsFlag)
    IN  [i \in 1..Len(f) |-> GroupAt(f, i)]

Count(s, x) == Cardinality({i \in 1..Len(s) : s[i] = x})

\* C1: in every build-raw command handed to the runner, the flags appear in
\* the order era marker, tx-in, tx-out, tx-in-collateral, certificate,
\* withdrawal, mint, auxiliary script, metadata, --script-invalid,
\* --invalid-before, --invalid-hereafter, --fee, --out-file,
\* --protocol-params-file: no flag of a later group precedes a flag of an
\* earlier one, and the three closing flags appear once each.
C1_FragmentOrder ==
    \A n \in 1..Len(cmds) :
        LET g == GroupsOf(cmds[n])
        IN  /\ \A i, j \in 1..Len(g) : i < j => g[i] <= g[j]
            /\ Count(g, 0) <= 1
            /\ Count(g, 12) = 1 /\ Count(g, 13) = 1 /\ Count(g, 14) = 1

\* a command in which every one of the fifteen groups is present
C1_Witness ==
    \E n \in 1..Len(cmds) :
        {GroupsOf(cmds[n])[i] : i \in 1..Len(GroupsOf(cmds[n]))} = 0..14

\* C2 (as claimed): whenever the call rejects with a validation error, no
\* file write has been issued during the call.
C2_NoWriteBeforeValidationError ==
    error = "validation" => writes = <<>>

\* C3: when a component encoder raised a validation error, the command
\* runner has not been invoked and never is.
C3_NoCommandAfterValidationError ==
    error = "validation" => cmds = <<>> /\ pc = "rejected"

\* a call that an encoder rejected after the stage before it had succeeded
C3_Witness ==
    error = "validation" /\ pc = "rejected" /\ "txInOption" \in DOMAIN frags

\* the script descriptors of the components read so far, as (path, content)
ScriptsRead ==
    LET of(field) == IF field \in DOMAIN buildOption
                     THEN {buildOption[field][i] : i \in 1..Len(buildOption[field])}
                     ELSE {}
        scripted  == of("_txIns") \cup of("_txInCollateralOptions")
                        \cup of("_certsOption") \cup of("_auxScriptOptions")
    IN  {[path |-> Truthy(o._script, "_outFilePath"),
          content |-> Truthy(o._script, "_outContent")] :
            o \in {x \in scripted : "_script" \in DOMAIN x}}
        \cup {[path |-> Truthy(o, "_scriptOutFilePath"),
               content |-> Truthy(o, "_scriptOutContent")] :
                o \in of("_withdrawalOptions")}

\* C6 (as claimed): a component that supplies script content without a path,
\* or a path without content, makes the call reject with a validation error
\* (unless a write of an earlier, complete descriptor failed first); no write
\* is issued for such a descriptor.
C6_ScriptPairEnforced ==
    /\ (error # "file" /\ \E sc \in ScriptsRead : sc.path # sc.content)
          => error = "validation"
    /\ \A i \in 1..Len(writes) :
          writes[i].path \notin {"", UNDEFINED} /\ writes[i].content \notin {"", UNDEFINED}

(***************************************************************************)
(* The output grammar, stated on its own.                                  *)
(***************************************************************************)
NonLovelace(b) == SelectSeq(b, LAMBDA p : p[1] # LOVELACE)

PositiveLovelace(o) ==
    HasKey(o._asset2quantity, LOVELACE) /\ Get(o._asset2quantity, LOVELACE) > 0

\* <address>+<q>[+"<qty> <asset>+..."][ --tx-out-datum-hash <hash>]
TxOutValue(o) ==
    LET b     == o._asset2quantity
        other == NonLovelace(b)
        terms == [i \in 1..Len(other) |-> <<ToString(other[i][2]), " ", other[i][1]>>]
    IN  <<o._address, "+", ToString(Get(b, LOVELACE))>>
        \o (IF Len(other) > 0
            THEN <<"+", "\"">> \o JoinWith(terms, <<"+">>) \o <<"\"">>
            ELSE <<>>)
        \o (IF "_datumHash" \in DOMAIN o /\ o._datumHash # ""
            THEN <<" ", "--tx-out-datum-hash", " ", o._datumHash>>
            ELSE <<>>)

\* C4 (as claimed): a list holding an output whose lovelace entry is missing,
\* zero or negative is rejected with a validation error and yields no
\* --tx-out fragment.
C4_NonPositiveLovelaceRejected ==
    (txOutRes # PENDING /\ \E i \in 1..Len(txOuts) : ~PositiveLovelace(txOuts[i]))
        => txOutRes.err = "validation" /\ txOutRes.out = <<>>

\* C7: for outputs with lovelace q > 0 the encoder returns, per output,
\* --tx-out <address>+<q>, then +"<qty> <asset>+..." over exactly the
\* non-lovelace assets iff there is one, then --tx-out-datum-hash <hash> iff
\* a datum hash is supplied; outputs are separated by one space.
C7_TxOutGrammar ==
    (txOutRes # PENDING /\ \A i \in 1..Len(txOuts) : PositiveLovelace(txOuts[i]))
        => /\ txOutRes.err = "none"
           /\ txOutRes.out =
                JoinWith([i \in 1..Len(txOuts) |->
                            <<"--tx-out", " ">> \o TxOutValue(txOuts[i])], <<" ">>)

\* two valid outputs encoded: a bare <address>+<q>, and one with two other
\* assets and a datum hash
C7_Witness ==
    /\ txOutRes # PENDING /\ txOutRes.err = "none" /\ Len(txOuts) = 2
    /\ txOuts[1]._asset2quantity = <<<<LOVELACE, 12>>>>
    /\ "_datumHash" \notin DOMAIN txOuts[1]
    /\ Len(NonLovelace(txOuts[2]._asset2quantity)) = 2
    /\ "_datumHash" \in DOMAIN txOuts[2]

(***************************************************************************)
(* The mint grammar, stated on its own.                                    *)
(***************************************************************************)
ValidMint(o) ==
    /\ "_action" \in DOMAIN o /\ o._action \in {"mint", "burn"}
    /\ "_assetId" \in DOMAIN o /\ o._assetId # ""
    /\ "_assetQuantity" \in DOMAIN o /\ o._assetQuantity > 0

\* "t1+t2+...+tn" with its quotes
QuotedTerms(options) ==
    LET term(o) == (IF o._action = "burn" THEN <<"-">> ELSE <<>>)
                   \o <<ToString(o._assetQuantity), " ", o._assetId>>
    IN  <<"\"">> \o JoinWith([i \in 1..Len(options) |-> term(options[i])], <<"+">>)
        \o <<"\"">>

\* the flags one action contributes after the term list
ScriptFlags(o) ==
    <<" ", "--mint-script-file", " ", o._policyScriptFilePath>>
    \o (IF "_redeemer" \in DOMAIN o /\ o._redeemer # ""
        THEN <<" ", "--mint-redeemer-value", " ", "'", o._redeemer, "'">> ELSE <<>>)
    \o (IF "_executionUnits" \in DOMAIN o
        THEN <<" ", "--mint-execution-units", " ", "\"", "(",
               ToString(o._executionUnits[1]), ",", ToString(o._executionUnits[2]),
               ")", "\"">>
        ELSE <<>>)

\* the position of the quote that closes the term list: the second quote
ClosingQuote(out) ==
    CHOOSE i \in 1..Len(out) :
        out[i] = "\"" /\ Cardinality({j \in 1..(i - 1) : out[j] = "\""}) = 1

MintFlags == {"--mint-script-file", "--mint-redeemer-value", "--mint-execution-units"}

\* C5 (as claimed): a list holding an action whose tag is not mint or burn,
\* whose asset id is empty or missing, or whose quantity is missing, zero or
\* negative is rejected with a validation error and yields nothing.
C5_InvalidMintRejected ==
    (mintRes # PENDING /\ \E i \in 1..Len(mintOptions) : ~ValidMint(mintOptions[i]))
        => mintRes.err = "validation" /\ mintRes.out = <<>>

\* C8: for a valid list of n >= 1 actions the fragment starts with
\* --mint="t1+...+tn": term i is <qty> <assetId>, prefixed with - for a burn,
\* terms in list order, one + between two terms and none after the last.
C8_MintTermList ==
    (/\ mintRes # PENDING /\ Len(mintOptions) >= 1
     /\ \A i \in 1..Len(mintOptions) : ValidMint(mintOptions[i]))
        => LET head == <<"--mint=">> \o QuotedTerms(mintOptions)
           IN  /\ mintRes.err = "none"
               /\ Len(mintRes.out) >= Len(head)
               /\ SubSeq(mintRes.out, 1, Len(head)) = head

\* a mint followed by a burn, encoded
C8_Witness ==
    /\ mintRes # PENDING /\ mintRes.err = "none" /\ Len(mintOptions) = 2
    /\ mintOptions[1]._action = "mint" /\ mintOptions[2]._action = "burn"

\* C9: for a valid list of n actions, what follows the closing quote of the
\* term list is, per action and in list order, --mint-script-file <path>
\* followed by that action's redeemer and execution-units flags when and only
\* when supplied; there are exactly n script flags and none before the
\* closing quote.
C9_MintScriptFlags ==
    (mintRes # PENDING /\ \A i \in 1..Len(mintOptions) : ValidMint(mintOptions[i]))
        => LET out   == mintRes.out
               close == ClosingQuote(out)
           IN  /\ mintRes.err = "none"
               /\ SubSeq(out, close + 1, Len(out)) =
                    JoinWith([i \in 1..Len(mintOptions) |-> ScriptFlags(mintOptions[i])],
                             <<>>)
               /\ Count(out, "--mint-script-file") = Len(mintOptions)
               /\ \A i \in 1..close : out[i] \notin MintFlags

\* two actions encoded, one with a redeemer and execution units, one bare
C9_Witness ==
    /\ mintRes # PENDING /\ mintRes.err = "none" /\ Len(mintOptions) = 2
    /\ "_executionUnits" \in DOMAIN mintOptions[1] /\ mintOptions[1]._redeemer = "r"
    /\ "_redeemer" \notin DOMAIN mintOptions[2]

(***************************************************************************)
(* JavaScript string and number primitives the parser uses.                *)
(***************************************************************************)
\* s.split(sep) for a one-character separator
Split(s, sep) ==
    LET at == SelectSeq([i \in 1..Len(s) |-> i], LAMBDA i : s[i] = sep)
        n  == Len(at)
    IN  [k \in 1..(n + 1) |->
            SubSeq(s, IF k = 1 THEN 1 ELSE at[k - 1] + 1,
                      IF k = n + 1 THEN Len(s) ELSE at[k] - 1)]

\* the characters of a token as one string
RECURSIVE Concat(_)
Concat(t) == IF t = <<>> THEN "" ELSE Head(t) \o Concat(Tail(t))

\* s.includes(word): an atom is a whole word, and the only word of a listing
\* that contains another is TxOutDatumNone, which contains None
Includes(s, word) ==
    \E i \in 1..Len(s) :
        s[i] = word \/ (word = "None" /\ s[i] = "TxOutDatumNone")

\* the integers a listing of the model may print
Numerals == -1..13

\* parseInt(s): the integer a leading numeral denotes, NaN otherwise
parseInt(s) ==
    IF s # <<>> /\ \E n \in Numerals : ToString(n) = Head(s)
    THEN CHOOSE n \in Numerals : ToString(n) = Head(s)
    ELSE NaN

\* the sum replaced by the last quantity read
JsAdd_Last(a, b) == b

\* a + b on JavaScript numbers
JsAdd(a, b) == IF a = NaN \/ b = NaN THEN NaN ELSE a + b

\* the token taken as it stands, quotes included
JsonParse_Quoted(s) == [err |-> "none", value |-> Concat(s)]

\* JSON.parse(s): a quoted string gives its content, a numeral its digits,
\* anything else (undefined included) a SyntaxError
JsonParse(s) ==
    IF Len(s) = 3 /\ s[1] = "\"" /\ s[3] = "\"" THEN [err |-> "none", value |-> s[2]]
    ELSE IF Len(s) = 1 /\ parseInt(s) # NaN THEN [err |-> "none", value |-> s[1]]
    ELSE [err |-> "SyntaxError", value |-> NULL]

\* obj[k] = v, a new key going last
Put(b, k, v) ==
    IF HasKey(b, k)
    THEN [i \in 1..Len(b) |-> IF b[i][1] = k THEN <<k, v>> ELSE b[i]]
    ELSE Append(b, <<k, v>>)

(***************************************************************************)
(* QueryUtxoAsync  (cardano-cli.ts 128-189)                                *)
(***************************************************************************)
\* one iteration of `for (const segment of segments)`; row carries
\* utxo_datumHash, asset2quantity and the error thrown, if any
SegmentStep(row, segment) ==
    IF Includes(segment, "TxOutDatumHash") \/ Includes(segment, "TxOutDatumNone")
    THEN IF ~Includes(segment, "None")
         THEN LET parts == Split(trim(segment), SPACE)
                  json  == JsonParse(IF Len(parts) >= 3 THEN parts[3] ELSE <<UNDEFINED>>)
              IN  IF json.err # "none" THEN [row EXCEPT !.err = json.err]
                  ELSE [row EXCEPT !._datumHash = json.value]
         ELSE row
    ELSE LET parts    == Split(trim(segment), SPACE)
             quantity == parts[1]
             asset    == IF Len(parts) >= 2 THEN Concat(parts[2]) ELSE UNDEFINED
             b        == row._asset2quantity
             current  == IF ~HasKey(b, asset) \/ Get(b, asset) \in {0, NaN}
                         THEN 0 ELSE Get(b, asset)
         IN  [row EXCEPT !._asset2quantity =
                            Put(b, asset, JsAdd(current, parseInt(quantity)))]

RECURSIVE SegmentLoop(_, _, _)
SegmentLoop(segments, i, row) ==
    IF i > Len(segments) \/ row.err # "none" THEN row
    ELSE SegmentLoop(segments, i + 1, SegmentStep(row, segments[i]))

\* the body of `for (let index = 2; ...)` for one line of the listing
ParseRow(line) ==
    LET utxo_items == SelectSeq(Split(trim(line), SPACE), LAMBDA ch : ch # <<>>)
    IN  IF Len(utxo_items) < 2
        THEN [err |-> "TypeError", _txHash |-> "", _txIndex |-> NaN,
              _datumHash |-> NULL, _asset2quantity |-> <<>>]
        ELSE LET segments == Split(JoinWith(SubSeq(utxo_items, 3, Len(utxo_items)),
                                            <<SPACE>>), "+")
             IN  SegmentLoop(segments, 1,
                    [err |-> "none",
                     _txHash |-> Concat(trim(utxo_items[1])),
                     _txIndex |-> parseInt(trim(utxo_items[2])),
                     _datumHash |-> NULL,
                     _asset2quantity |-> <<>>])

Utxo(row) == [_txHash |-> row._txHash, _txIndex |-> row._txIndex,
              _datumHash |-> row._datumHash, _asset2quantity |-> row._asset2quantity]

\* the loop over utxo_rows, from the third line on
RECURSIVE RowLoop(_, _, _)
RowLoop(utxo_rows, index, acc) ==
    IF index > Len(utxo_rows) THEN [err |-> "none", utxos |-> acc]
    ELSE LET row == ParseRow(utxo_rows[index])
         IN  IF row.err # "none" THEN [err |-> row.err, utxos |-> <<>>]
             ELSE RowLoop(utxo_rows, index + 1, Append(acc, Utxo(row)))

\* the parser reading the separator line as a data row
ParseUtxo_FromSeparator(raw) ==
    IF raw = <<>> THEN [err |-> "none", utxos |-> <<>>]
    ELSE RowLoop(Split(trim(raw), LINE_FEED), 2, <<>>)

ParseUtxo(raw) ==
    IF raw = <<>> THEN [err |-> "none", utxos |-> <<>>]
    ELSE RowLoop(Split(trim(raw), LINE_FEED), 3, <<>>)

(***************************************************************************)
(* The listing `cardano-cli query utxo` prints  (cardano-cli.ts 131-138):  *)
(* a title line, a separator line and one line per UTXO,                   *)
(*   <hash> <index> <qty> lovelace [+ <qty> <asset>]... + <datum>          *)
(* where <datum> is TxOutDatumNone or TxOutDatumHash <era> "<hash>".       *)
(***************************************************************************)
Gap == <<" ", " ", " ">>

RenderDatum(d) ==
    IF d = NULL THEN <<"TxOutDatumNone">>
    ELSE <<"TxOutDatumHash", " ", "ScriptDataInAlonzoEra", " ", "\"", d, "\"">>

RenderRow(u) ==
    <<u._txHash>> \o Gap \o Num(u._txIndex) \o Gap
        \o JoinWith([i \in 1..Len(u._asset2quantity) |->
                        Num(u._asset2quantity[i][2]) \o <<" ", u._asset2quantity[i][1]>>]
                    \o <<RenderDatum(u._datumHash)>>, <<" ", "+", " ">>)

RenderListing(rows, lastLineFeed) ==
    JoinWith(<< Gap \o <<"TxHash">> \o Gap \o <<"TxIx">> \o Gap \o <<"Amount">>,
                <<"--------------------">> >>
             \o [i \in 1..Len(rows) |-> RenderRow(rows[i])], <<LINE_FEED>>)
        \o (IF lastLineFeed THEN <<LINE_FEED>> ELSE <<>>)

LedgerSet ==
    {[_txHash |-> h, _txIndex |-> i, _datumHash |-> d, _asset2quantity |-> b] :
        h \in {"h1", "h2"}, i \in {0, 12}, d \in {NULL, "dh"},
        b \in {<<<<LOVELACE, 5>>>>, <<<<LOVELACE, 7>>, <<"p1.a", 2>>>>}}

InitUtxo ==
    /\ ledger \in Lists(LedgerSet, MaxRows)
    /\ utxo_raw = <<>>
    /\ utxos = PENDING
    /\ balance = PENDING
    /\ reparsed = PENDING
    /\ idleBuild /\ idleTxOut /\ idleMint /\ idleMore

\* QueryUtxoAsync: the runner returns the listing of the ledger (or nothing
\* at all when the ledger is empty), and the call parses it
QueryUtxoAsync ==
    /\ utxos = PENDING
    /\ \E stdout \in {RenderListing(ledger, lf) : lf \in BOOLEAN}
                     \cup (IF ledger = <<>> THEN {<<>>, <<LINE_FEED>>} ELSE {}) :
          /\ utxo_raw' = stdout
          /\ utxos' = ParseUtxo(stdout)
    /\ UNCHANGED <<moreVars, ledger, balance, reparsed, buildVars, txOutVars, mintVars>>

NextUtxo == QueryUtxoAsync

SpecUtxo == InitUtxo /\ [][NextUtxo]_vars

\* C10: for a listing of two header lines and k >= 0 data rows the call
\* returns k records, record i with the hash and the integer index of row i,
\* in row order; for an empty text or the bare header it returns an empty
\* sequence; it raises no error.
C10_OneRecordPerRow ==
    utxos # PENDING
        => /\ utxos.err = "none"
           /\ Len(utxos.utxos) = Len(ledger)
           /\ \A i \in 1..Len(ledger) :
                 /\ utxos.utxos[i]._txHash = ledger[i]._txHash
                 /\ utxos.utxos[i]._txIndex = ledger[i]._txIndex

\* a listing of two rows with different hashes and indices has been parsed
C10_Witness ==
    /\ utxos # PENDING /\ Len(ledger) = 2 /\ Len(utxos.utxos) = 2
    /\ ledger[1]._txIndex # ledger[2]._txIndex
    /\ ledger[1]._txHash # ledger[2]._txHash

(***************************************************************************)
(* QueryUtxoAsync on the texts it may be handed: the listing of rows with  *)
(* repeated assets or no lovelace, with the datum column in either         *)
(* documented form, with header lines missing, or with an index column     *)
(* that is no number.                                                      *)
(***************************************************************************)
TitleLine     == Gap \o <<"TxHash">> \o Gap \o <<"TxIx">> \o Gap \o <<"Amount">>
SeparatorLine == <<"--------------------">>

\* the lines a listing opens with, for 0, 1 or 2 header lines
HeaderLinesOf(n) ==
    IF n = 0 THEN <<>> ELSE IF n = 1 THEN <<SeparatorLine>>
    ELSE <<TitleLine, SeparatorLine>>

\* the datum column as the format summary writes it: the marker and the hash
RenderDatumBare(d) ==
    IF d = NULL THEN <<"TxOutDatumNone">> ELSE <<"TxOutDatumHash", " ", d>>

\* an index column that holds no number
BadIndexToken == "n/a"

RenderRowAs(u, shape) ==
    <<u._txHash>> \o Gap
        \o (IF shape.badIndex THEN <<BadIndexToken>> ELSE Num(u._txIndex)) \o Gap
        \o JoinWith([i \in 1..Len(u._asset2quantity) |->
                        Num(u._asset2quantity[i][2]) \o <<" ", u._asset2quantity[i][1]>>]
                    \o <<IF shape.bare THEN RenderDatumBare(u._datumHash)
                         ELSE RenderDatum(u._datumHash)>>, <<" ", "+", " ">>)

RenderListingAs(rows, shape) ==
    JoinWith(HeaderLinesOf(shape.headers)
             \o [i \in 1..Len(rows) |-> RenderRowAs(rows[i], shape)], <<LINE_FEED>>)

Shapes ==
    [headers : 0..2, bare : BOOLEAN, badIndex : BOOLEAN]

\* the amount columns of a row: asset segments in the order printed
AmountColumns ==
    {<<<<LOVELACE, 5>>>>,
     <<<<LOVELACE, 7>>, <<"p1.a", 2>>>>,
     <<<<LOVELACE, 3>>, <<"p1.a", 2>>, <<"p2.b", 0>>, <<"p1.a", 4>>>>,
     <<<<"p2.b", 1>>, <<LOVELACE, 6>>, <<"p2.b", 1>>>>,
     <<<<LOVELACE, 0>>, <<"p1.a", 1>>>>}

ListingRows ==
    {[_txHash |-> hi[1], _txIndex |-> hi[2], _datumHash |-> d, _asset2quantity |-> b] :
        hi \in {<<"h1", 0>>, <<"h2", 12>>}, d \in {NULL, "dh"}, b \in AmountColumns}

InitListing ==
    /\ ledger \in Lists(ListingRows, MaxRows)
    /\ utxo_raw = <<>>
    /\ utxos = PENDING
    /\ balance = PENDING
    /\ reparsed = PENDING
    /\ idleBuild /\ idleTxOut /\ idleMint /\ idleMore

\* QueryUtxoAsync handed one of the texts above
QueryListing ==
    /\ utxos = PENDING
    /\ \E shape \in Shapes :
          /\ utxo_raw' = RenderListingAs(ledger, shape)
          /\ utxos' = ParseUtxo(utxo_raw')
    /\ UNCHANGED <<moreVars, ledger, balance, reparsed, buildVars, txOutVars, mintVars>>

(***************************************************************************)
(* Reading a listing back, to say what a text holds.                       *)
(***************************************************************************)
LinesOf(raw) == Split(trim(raw), LINE_FEED)

Tokens(line) == SelectSeq(Split(trim(line), SPACE), LAMBDA t : t # <<>>)

TwoHeaderLines(raw) ==
    LET L == LinesOf(raw)
    IN  Len(L) >= 2 /\ L[1] = trim(TitleLine) /\ L[2] = SeparatorLine

IsHeaderLine(line) == line \in {TitleLine, trim(TitleLine), SeparatorLine}

DataLines(raw) == SelectSeq(LinesOf(raw), LAMBDA l : l # <<>> /\ ~IsHeaderLine(l))

IndexUnparsable(raw) ==
    \E k \in 1..Len(DataLines(raw)) :
        LET t == Tokens(DataLines(raw)[k])
        IN  Len(t) < 2 \/ parseInt(t[2]) = NaN

\* the datum column has the marker, the era and the quoted hash
DatumAsPrinted(raw) ==
    \A k \in 1..Len(raw) :
        raw[k] = "TxOutDatumHash"
            => k + 2 <= Len(raw) /\ raw[k + 2] = "ScriptDataInAlonzoEra"

DatumWords == {"TxOutDatumNone", "TxOutDatumHash", "ScriptDataInAlonzoEra",
               "dh", UNDEFINED}

RECURSIVE SumOf(_, _)
SumOf(amounts, asset) ==
    IF amounts = <<>> THEN 0
    ELSE (IF Head(amounts)[1] = asset THEN Head(amounts)[2] ELSE 0)
         + SumOf(Tail(amounts), asset)

Keys(b) == {b[i][1] : i \in 1..Len(b)}

\* the rows of the ledger the parser did not read as data rows
Unread == Len(ledger) - Len(utxos.utxos)

(***************************************************************************)
(* A parsed bundle sent back out: the record's bundle becomes the bundle   *)
(* of one output, _BuildTxOutOption encodes it, and the amounts of the     *)
(* encoded output are read by QueryUtxoAsync as the one row of a listing.  *)
(***************************************************************************)
OutputOf(utxo) == [_address |-> "addr1", _asset2quantity |-> utxo._asset2quantity]

EncodeParsed ==
    /\ utxos # PENDING
    /\ utxos.err = "none"
    /\ txOutRes = PENDING
    /\ \E i \in 1..Len(utxos.utxos) :
          /\ txOuts' = <<OutputOf(utxos.utxos[i])>>
          /\ txOutRes' = _BuildTxOutOption(txOuts')
    /\ UNCHANGED <<moreVars, utxoVars, buildVars, mintVars>>

\* <address>+<q>+"<q1> <a1>+<q2> <a2>" printed as  <q> lovelace + <q1> <a1> + <q2> <a2>
AmountsOf(out) ==
    LET parts == Split(out, "+")
    IN  JoinWith(<<parts[2] \o <<" ", LOVELACE>>>>
                 \o [k \in 1..(Len(parts) - 2) |->
                        SelectSeq(parts[k + 2], LAMBDA a : a # "\"")],
                 <<" ", "+", " ">>)

ListingOf(out) ==
    JoinWith(<<TitleLine, SeparatorLine,
               <<"h1">> \o Gap \o <<"0">> \o Gap \o AmountsOf(out)
                        \o <<" ", "+", " ", "TxOutDatumNone">>>>, <<LINE_FEED>>)

Reparse ==
    /\ txOutRes # PENDING
    /\ txOutRes.err = "none"
    /\ reparsed = PENDING
    /\ reparsed' = ParseUtxo(ListingOf(txOutRes.out))
    /\ UNCHANGED <<moreVars, ledger, utxo_raw, utxos, balance, txOutVars, buildVars, mintVars>>

NextListing ==
    \/ QueryListing
    \/ EncodeParsed
    \/ Reparse

SpecListing == InitListing /\ [][NextListing]_vars

\* a bundle as a map: its set of (asset, quantity) entries
AsMap(b) == {<<b[i][1], b[i][2]>> : i \in 1..Len(b)}

\* the listing is the one the tool prints: two header lines, a number in
\* the index column, the datum column as the tool prints it
AsPrinted(raw) ==
    TwoHeaderLines(raw) /\ ~IndexUnparsable(raw) /\ DatumAsPrinted(raw)

\* C11: for every data row of a listing as the tool prints it, the record's
\* datum hash is null when the datum segment is TxOutDatumNone and is <hash>
\* when the segment is TxOutDatumHash <era> "<hash>", the hash being the
\* third token of the segment in JSON quotes; no word of a datum segment
\* becomes a key of the record's bundle.
C11_DatumHashParsed ==
    (utxos # PENDING /\ AsPrinted(utxo_raw))
        => /\ utxos.err = "none"
           /\ Len(utxos.utxos) = Len(ledger)
           /\ \A i \in 1..Len(ledger) :
                 /\ utxos.utxos[i]._datumHash = ledger[i]._datumHash
                 /\ Keys(utxos.utxos[i]._asset2quantity) \cap DatumWords = {}

\* a row with a datum hash and a row without one have been parsed
C11_Witness ==
    /\ utxos # PENDING /\ AsPrinted(utxo_raw) /\ Len(ledger) = 2
    /\ Len(utxos.utxos) = 2
    /\ utxos.utxos[1]._datumHash = "dh"
    /\ utxos.utxos[2]._datumHash = NULL

\* C11 as stated: with the datum segment written TxOutDatumHash <hash>, the
\* record's datum hash is null for TxOutDatumNone and <hash> otherwise.
C11_DatumHashTwoTokens ==
    (utxos # PENDING /\ TwoHeaderLines(utxo_raw) /\ ~IndexUnparsable(utxo_raw)
        /\ ~DatumAsPrinted(utxo_raw))
        => /\ utxos.err = "none"
           /\ Len(utxos.utxos) = Len(ledger)
           /\ \A i \in 1..Len(ledger) :
                 utxos.utxos[i]._datumHash = ledger[i]._datumHash

\* C12: for every data row read, the bundle's keys are exactly the asset ids
\* its asset segments name, and each key maps to the sum of the quantities
\* of the segments naming it: a repeated asset id is summed.
C12_RepeatedAssetsSummed ==
    (utxos # PENDING /\ utxos.err = "none")
        => \A j \in 1..Len(utxos.utxos) :
              LET amounts == ledger[j + Unread]._asset2quantity
                  b       == utxos.utxos[j]._asset2quantity
              IN  /\ Keys(b) = Keys(amounts)
                  /\ Len(b) = Cardinality(Keys(amounts))
                  /\ \A a \in Keys(amounts) : Get(b, a) = SumOf(amounts, a)

\* a row naming p1.a twice, with 2 and with 4, has been read
C12_Witness ==
    /\ utxos # PENDING /\ utxos.err = "none" /\ Len(utxos.utxos) >= 1
    /\ \E j \in 1..Len(utxos.utxos) :
          /\ Len(ledger[j + Unread]._asset2quantity) = 4
          /\ Get(utxos.utxos[j]._asset2quantity, "p1.a") = 6

\* C17 as stated: every bundle the parser produced is encoded as an output,
\* and the encoded amounts read back as a listing row give the same bundle.
C17_RoundTrip ==
    txOutRes # PENDING
        => /\ txOutRes.err = "none"
           /\ reparsed # PENDING
                => /\ reparsed.err = "none"
                   /\ Len(reparsed.utxos) = 1
                   /\ AsMap(reparsed.utxos[1]._asset2quantity)
                        = AsMap(txOuts[1]._asset2quantity)

\* C17, amended: every bundle the parser produced with a positive lovelace
\* quantity is encoded as an output, and the encoded amounts read back as a
\* listing row give the same bundle, order ignored.
C17_RoundTripPositiveLovelace ==
    (txOutRes # PENDING /\ ~Falsy(txOuts[1]._asset2quantity, LOVELACE))
        => /\ txOutRes.err = "none"
           /\ reparsed # PENDING
                => /\ reparsed.err = "none"
                   /\ Len(reparsed.utxos) = 1
                   /\ AsMap(reparsed.utxos[1]._asset2quantity)
                        = AsMap(txOuts[1]._asset2quantity)

\* a bundle of three assets, lovelace not first and one of quantity zero,
\* has gone round
C17_Witness ==
    /\ reparsed # PENDING
    /\ Len(txOuts[1]._asset2quantity) = 3
    /\ txOuts[1]._asset2quantity[1][1] # LOVELACE \/ Get(txOuts[1]._asset2quantity, "p2.b") = 0
    /\ Len(reparsed.utxos[1]._asset2quantity) = 3

\* C18: a listing with data rows that has fewer than two header lines, or an
\* index column that is no number, makes QueryUtxoAsync raise an error.
C18_MalformedListingReported ==
    (utxos # PENDING /\ ledger # <<>>
        /\ (~TwoHeaderLines(utxo_raw) \/ IndexUnparsable(utxo_raw))
        /\ DatumAsPrinted(utxo_raw))
        => utxos.err # "none"

(***************************************************************************)
(* QueryWalletInfoAsync  (cardano-cli.ts 201-220): the balance summed over *)
(* the records QueryUtxoAsync returned.                                    *)
(***************************************************************************)
\* the body of the inner loop with the quantity read replacing the total
BalanceStep_Overwrite(bal, entry) == Put(bal, entry[1], entry[2])

\* the body of the inner loop with the first quantity of an asset kept
BalanceStep_FirstKept(bal, entry) ==
    IF HasKey(bal, entry[1]) THEN bal ELSE Put(bal, entry[1], entry[2])

\* `if (!balance[asset]) balance[asset] = 0; balance[asset] += quantity`
BalanceStep(bal, entry) ==
    LET asset   == entry[1]
        current == IF ~HasKey(bal, asset) \/ Get(bal, asset) \in {0, NaN}
                   THEN 0 ELSE Get(bal, asset)
    IN  Put(bal, asset, JsAdd(current, entry[2]))

\* `for (const asset in utxo._asset2quantity)`
RECURSIVE AssetLoop(_, _, _)
AssetLoop(b, i, bal) ==
    IF i > Len(b) THEN bal ELSE AssetLoop(b, i + 1, BalanceStep(bal, b[i]))

\* `for (const utxo of utxos)`
RECURSIVE UtxoLoop(_, _, _)
UtxoLoop(records, i, bal) ==
    IF i > Len(records) THEN bal
    ELSE UtxoLoop(records, i + 1, AssetLoop(records[i]._asset2quantity, 1, bal))

\* the call after `await this.QueryUtxoAsync(walletAddress)`: an error of
\* the query is the error of the call
QueryWalletInfoAsync ==
    /\ utxos # PENDING
    /\ balance = PENDING
    /\ balance' = IF utxos.err # "none" THEN [err |-> utxos.err]
                  ELSE [err |-> "none",
                        _balance |-> UtxoLoop(utxos.utxos, 1, <<>>),
                        _utxos |-> utxos.utxos]
    /\ UNCHANGED <<moreVars, ledger, utxo_raw, utxos, reparsed, buildVars, txOutVars, mintVars>>

MaxUtxos == 3

BalanceBundles ==
    {<<>>,
     <<<<LOVELACE, 90>>>>,
     <<<<LOVELACE, 30>>, <<"nft1", 1>>>>,
     <<<<"nft1", 2>>, <<LOVELACE, 0>>>>,
     <<<<"nft2", 3>>, <<"nft1", 0>>>>,
     <<<<"nft2", 0>>>>}

BalanceRecords ==
    {[_txHash |-> "h1", _txIndex |-> 0, _datumHash |-> NULL, _asset2quantity |-> b] :
        b \in BalanceBundles}

\* QueryUtxoAsync has returned the records, or has failed
InitBalance ==
    /\ utxos \in {[err |-> "none", utxos |-> r] : r \in Lists(BalanceRecords, MaxUtxos)}
                 \cup {[err |-> "SyntaxError", utxos |-> <<>>]}
    /\ ledger = <<>>
    /\ utxo_raw = <<>>
    /\ balance = PENDING
    /\ reparsed = PENDING
    /\ idleBuild /\ idleTxOut /\ idleMint /\ idleMore

\* Utxo2Balance skipping the assets whose quantity is zero
Utxo2BalanceStep_SkipZero(bal, entry) ==
    IF entry[2] = 0 THEN bal
    ELSE IF HasKey(bal, entry[1]) /\ Get(bal, entry[1]) \notin {0, NaN}
         THEN Put(bal, entry[1], JsAdd(Get(bal, entry[1]), entry[2]))
         ELSE Put(bal, entry[1], entry[2])

\* DkCardanoHelper.Utxo2Balance (part_003 10-26), the body of its inner
\* loop: `if (balance[asset]) balance[asset] += q; else balance[asset] = q`
Utxo2BalanceStep(bal, entry) ==
    IF HasKey(bal, entry[1]) /\ Get(bal, entry[1]) \notin {0, NaN}
    THEN Put(bal, entry[1], JsAdd(Get(bal, entry[1]), entry[2]))
    ELSE Put(bal, entry[1], entry[2])

RECURSIVE Utxo2BalanceAssetLoop(_, _, _)
Utxo2BalanceAssetLoop(b, i, bal) ==
    IF i > Len(b) THEN bal
    ELSE Utxo2BalanceAssetLoop(b, i + 1, Utxo2BalanceStep(bal, b[i]))

RECURSIVE Utxo2BalanceLoop(_, _, _)
Utxo2BalanceLoop(records, i, bal) ==
    IF i > Len(records) THEN bal
    ELSE Utxo2BalanceLoop(records, i + 1,
                          Utxo2BalanceAssetLoop(records[i]._asset2quantity, 1, bal))

\* the static helper applied to the records QueryUtxoAsync returned
Utxo2Balance ==
    /\ utxos # PENDING
    /\ utxos.err = "none"
    /\ utxo2balance = PENDING
    /\ utxo2balance' = [err |-> "none", _balance |-> Utxo2BalanceLoop(utxos.utxos, 1, <<>>)]
    /\ UNCHANGED <<component, componentRes, utxoVars, buildVars, txOutVars, mintVars>>

NextBalance ==
    \/ QueryWalletInfoAsync
    \/ Utxo2Balance

SpecBalance == InitBalance /\ [][NextBalance]_vars

\* every (asset, quantity) entry of the records, in order
RECURSIVE AllEntries(_)
AllEntries(records) ==
    IF records = <<>> THEN <<>>
    ELSE Head(records)._asset2quantity \o AllEntries(Tail(records))

\* C13: the balance maps each asset id occurring in any record to the sum
\* of that asset's quantities over all records, and its keys are exactly
\* the union of the records' keys.
C13_BalanceIsSum ==
    (balance # PENDING /\ balance.err = "none")
        => LET all == AllEntries(utxos.utxos)
               b   == balance._balance
           IN  /\ Keys(b) = Keys(all)
               /\ Len(b) = Cardinality(Keys(all))
               /\ \A a \in Keys(all) : Get(b, a) = SumOf(all, a)

\* {lovelace: 90} and {lovelace: 30, nft1: 1} have given
\* {lovelace: 120, nft1: 1}
C13_Witness ==
    /\ balance # PENDING /\ balance.err = "none"
    /\ Len(utxos.utxos) = 2
    /\ utxos.utxos[1]._asset2quantity = <<<<LOVELACE, 90>>>>
    /\ utxos.utxos[2]._asset2quantity = <<<<LOVELACE, 30>>, <<"nft1", 1>>>>
    /\ balance._balance = <<<<LOVELACE, 120>>, <<"nft1", 1>>>>

\* the merge of two bundles: the balance of two records holding them
Merge(a, b) == UtxoLoop(<<[_asset2quantity |-> a], [_asset2quantity |-> b]>>, 1, <<>>)

\* C14: on bundles of non-negative quantities the merge is commutative and
\* associative and has the empty bundle as identity, all as maps; the
\* balance of every permutation of the records is the same map.
C14_MergeAlgebra ==
    (balance # PENDING /\ balance.err = "none")
        => LET r == utxos.utxos
               B == {r[i]._asset2quantity : i \in 1..Len(r)}
           IN  /\ \A a \in B : /\ AsMap(Merge(a, <<>>)) = AsMap(a)
                               /\ AsMap(Merge(<<>>, a)) = AsMap(a)
               /\ \A a, b \in B : AsMap(Merge(a, b)) = AsMap(Merge(b, a))
               /\ \A a, b, c \in B :
                     AsMap(Merge(Merge(a, b), c)) = AsMap(Merge(a, Merge(b, c)))
               /\ \A p \in Permutations(1..Len(r)) :
                     AsMap(UtxoLoop([i \in 1..Len(r) |-> r[p[i]]], 1, <<>>))
                        = AsMap(balance._balance)

\* three records with different bundles that share assets have been summed
C14_Witness ==
    /\ balance # PENDING /\ balance.err = "none"
    /\ Len(utxos.utxos) = 3
    /\ Cardinality({utxos.utxos[i]._asset2quantity : i \in 1..3}) = 3
    /\ \A i \in 1..3 : HasKey(utxos.utxos[i]._asset2quantity, "nft1")

\* C15: every quantity printed in an accepted --tx-out value is >= 0.
C15_NoNegativeQuantity ==
    (txOutRes # PENDING /\ txOutRes.err = "none")
        => \A n \in Numerals :
              (\E k \in 1..Len(txOutRes.out) : txOutRes.out[k] = ToString(n)) => n >= 0

(***************************************************************************)
(* Quantities beyond 2^31.  A non-negative integer is held exactly as two  *)
(* decimal limbs <<hi, lo>>, its value hi * 10^8 + lo with lo < 10^8.  A   *)
(* JavaScript number is the double nearest to the integer it was made      *)
(* from; the doubles below 2^55 are integers, held in the same limbs.      *)
(***************************************************************************)
TwoPow53 == <<90071992, 54740992>>
TwoPow54 == <<180143985, 9481984>>

WideLess(x, y) == x[1] < y[1] \/ (x[1] = y[1] /\ x[2] < y[2])

\* x + k for a small integer k
WideShift(x, k) ==
    LET lo == x[2] + k
    IN  IF lo < 0 THEN <<x[1] - 1, lo + 100000000>>
        ELSE IF lo >= 100000000 THEN <<x[1] + 1, lo - 100000000>>
        ELSE <<x[1], lo>>

\* x + y, exactly
WideAdd(x, y) ==
    LET lo == x[2] + y[2]
    IN  <<x[1] + y[1] + (lo \div 100000000), lo % 100000000>>

\* the double nearest to x, ties to the even significand, for x < 2^55:
\* doubles are 1 apart below 2^53, 2 apart below 2^54, 4 apart below 2^55
\* (10^8 is a multiple of 8, so x mod 8 is lo mod 8)
ToDouble(x) ==
    IF WideLess(x, TwoPow53) THEN x
    ELSE IF WideLess(x, TwoPow54)
         THEN IF x[2] % 2 = 0 THEN x
              ELSE IF (x[2] - 1) % 4 = 0 THEN WideShift(x, -1) ELSE WideShift(x, 1)
    ELSE LET r == x[2] % 4
         IN  IF r = 0 THEN x
             ELSE IF r = 1 THEN WideShift(x, -1)
             ELSE IF r = 3 THEN WideShift(x, 1)
             ELSE IF (x[2] - 2) % 8 = 0 THEN WideShift(x, -2) ELSE WideShift(x, 2)

\* a + b on JavaScript numbers
DoubleAdd(a, b) == ToDouble(WideAdd(a, b))

\* eight decimal digits of a low limb
Pad8(n) ==
    (IF n < 10 THEN "0000000" ELSE IF n < 100 THEN "000000"
     ELSE IF n < 1000 THEN "00000" ELSE IF n < 10000 THEN "0000"
     ELSE IF n < 100000 THEN "000" ELSE IF n < 1000000 THEN "00"
     ELSE IF n < 10000000 THEN "0" ELSE "") \o ToString(n)

\* the decimal numeral of x
Numeral(x) == IF x[1] = 0 THEN ToString(x[2]) ELSE ToString(x[1]) \o Pad8(x[2])

\* the quantities a row of the listing may print
WideQuantities ==
    {<<0, 1>>, <<0, 5>>,
     WideShift(TwoPow53, -1), TwoPow53, WideShift(TwoPow53, 1), WideShift(TwoPow53, 3)}

\* parseInt(s) on a numeral of any size: the double nearest to the integer
\* the numeral denotes
parseIntDouble(s) ==
    ToDouble(CHOOSE x \in WideQuantities : Numeral(x) = Head(s))

RenderWideRow(q) ==
    <<"h1">> \o Gap \o <<"0">> \o Gap
        \o <<Numeral(q), " ", LOVELACE, " ", "+", " ", "TxOutDatumNone">>

RenderWideListing(rows) ==
    JoinWith(<<TitleLine, SeparatorLine>>
             \o [i \in 1..Len(rows) |-> RenderWideRow(rows[i])], <<LINE_FEED>>)

\* the loop body of QueryUtxoAsync on a row of one asset segment:
\* asset2quantity[asset] = 0; asset2quantity[asset] += parseInt(quantity)
ParseWideRow(line) ==
    LET utxo_items == Tokens(line)
    IN  [_txHash |-> Concat(utxo_items[1]),
         _txIndex |-> parseInt(utxo_items[2]),
         _datumHash |-> NULL,
         _asset2quantity |->
            <<<<Concat(utxo_items[4]), DoubleAdd(<<0, 0>>, parseIntDouble(utxo_items[3]))>>>>]

\* the loops of QueryWalletInfoAsync on records of one asset each
RECURSIVE WideBalance(_, _, _)
WideBalance(records, i, total) ==
    IF i > Len(records) THEN total
    ELSE WideBalance(records, i + 1, DoubleAdd(total, records[i]._asset2quantity[1][2]))

InitPrecision ==
    /\ ledger \in Lists(WideQuantities, MaxRows)
    /\ utxo_raw = <<>>
    /\ utxos = PENDING
    /\ balance = PENDING
    /\ reparsed = PENDING
    /\ idleBuild /\ idleTxOut /\ idleMint /\ idleMore

QueryWideUtxo ==
    /\ utxos = PENDING
    /\ utxo_raw' = RenderWideListing(ledger)
    /\ utxos' = [err |-> "none",
                 utxos |-> [i \in 1..Len(ledger) |->
                              ParseWideRow(LinesOf(utxo_raw')[i + 2])]]
    /\ UNCHANGED <<moreVars, ledger, balance, reparsed, buildVars, txOutVars, mintVars>>

QueryWideWalletInfo ==
    /\ utxos # PENDING
    /\ balance = PENDING
    /\ balance' = [err |-> "none",
                   _balance |-> IF utxos.utxos = <<>> THEN <<>>
                                ELSE <<<<LOVELACE, WideBalance(utxos.utxos, 1, <<0, 0>>)>>>>,
                   _utxos |-> utxos.utxos]
    /\ UNCHANGED <<moreVars, ledger, utxo_raw, utxos, reparsed, buildVars, txOutVars, mintVars>>

NextPrecision ==
    \/ QueryWideUtxo
    \/ QueryWideWalletInfo

SpecPrecision == InitPrecision /\ [][NextPrecision]_vars

RECURSIVE WideSum(_)
WideSum(qs) == IF qs = <<>> THEN <<0, 0>> ELSE WideAdd(Head(qs), WideSum(Tail(qs)))

\* C16: every parsed quantity is exactly the integer its token denotes, and
\* the balance is exactly the integer sum of the quantities, for quantities
\* above 2^53 as for small ones.
C16_ExactQuantities ==
    /\ utxos # PENDING
         => \A i \in 1..Len(ledger) : utxos.utxos[i]._asset2quantity[1][2] = ledger[i]
    /\ (balance # PENDING /\ ledger # <<>>)
         => balance._balance[1][2] = WideSum(ledger)

(***************************************************************************)
(* The files of a build: what the caller asked to be written, and what the *)
(* command names.                                                          *)
(***************************************************************************)
FileFlags == {"--tx-in-script-file", "--withdrawal-script-file",
              "--certificate-script-file", "--auxiliary-script-file",
              "--metadata-json-file"}

\* the (path, content) pairs of the descriptors read so far
CallerFiles ==
    LET of(field) == IF field \in DOMAIN buildOption
                     THEN {buildOption[field][i] : i \in 1..Len(buildOption[field])}
                     ELSE {}
        scripted  == of("_txIns") \cup of("_txInCollateralOptions")
                        \cup of("_certsOption") \cup of("_auxScriptOptions")
    IN  {<<Prop(o._script, "_outFilePath"), Prop(o._script, "_outContent")>> :
            o \in {x \in scripted : "_script" \in DOMAIN x}}
        \cup {<<Prop(o, "_scriptOutFilePath"), Prop(o, "_scriptOutContent")>> :
                o \in of("_withdrawalOptions")}
        \cup (IF "_metadataOption" \in DOMAIN buildOption
              THEN {<<Prop(buildOption._metadataOption, "_metadataOutFilePath"),
                      Prop(buildOption._metadataOption, "_metadataOutContent")>>}
              ELSE {})

\* the paths a command names after a script-file or metadata flag
PathsNamed(cmd) == {cmd[k + 2] : k \in {j \in 1..(Len(cmd) - 2) : cmd[j] \in FileFlags}}

WrittenBeforeCommand ==
    cmds # <<>>
        => /\ \A i \in 1..Len(writes) : writes[i].ok
           /\ \A c \in 1..Len(cmds) : \A path \in PathsNamed(cmds[c]) :
                 \E i \in 1..Len(writes) :
                    /\ writes[i].path = path
                    /\ writes[i].ok
                    /\ <<path, writes[i].content>> \in CallerFiles

NoWriteOnceIssued == cmds' # <<>> => writes' = writes

\* C19: when the build-raw command is handed to the runner every write of
\* the build has completed: every write logged has succeeded, every path the
\* command names after a script-file or metadata flag has been written with
\* the caller's content, and no write is made in the step that issues the
\* command or after it.
C19_WritesBeforeCommand == []WrittenBeforeCommand /\ [][NoWriteOnceIssued]_vars

\* a command issued after three files and more were written
C19_Witness ==
    /\ cmds # <<>>
    /\ Cardinality({writes[i].path : i \in 1..Len(writes)}) >= 3
    /\ Cardinality(PathsNamed(cmds[1])) >= 3

\* C20: when a file write fails the call rejects with the collaborator's
\* error, no command is issued and nothing is returned.
C20_WriteFailurePassedThrough ==
    (\E i \in 1..Len(writes) : ~writes[i].ok)
        => /\ error = "file"
           /\ pc = "rejected"
           /\ cmds = <<>>
           /\ ret = ABSENT

\* a write rejected after an earlier write of the same call succeeded
C20_Witness ==
    /\ Len(writes) >= 2
    /\ writes[1].ok
    /\ ~writes[Len(writes)].ok
    /\ error = "file"

(***************************************************************************)
(* QueryTransactionIdAsync  (cardano-cli.ts 319-335).  The call uses the   *)
(* variables of a call on the instance: pc, buildOption (the constructor's *)
(* option and the option of the call), cmds, error and ret.                *)
(***************************************************************************)
\* lines 320-326: the two optional flags, appended one after the other
txOption(option) ==
    (IF Truthy(option, "_txFilePath")
     THEN <<"--tx-file", " ">> \o Str(option._txFilePath) ELSE EMPTY_STRING)
    \o (IF Truthy(option, "_txBodyFilePath")
        THEN <<"--tx-body-file", " ">> \o Str(option._txBodyFilePath) ELSE EMPTY_STRING)

\* `${this.cliPath} transaction txid ${txOption}`
TxIdCommand(cliPath, option) ==
    Str(cliPath) \o <<" ", "transaction", " ", "txid", " ">> \o txOption(option)

TxIdChoices ==
    {f @@ b : f \in {<<>>, [_txFilePath |-> ""], [_txFilePath |-> "tx.signed"],
                     [_txFilePath |-> "b.signed"]},
              b \in {<<>>, [_txBodyFilePath |-> ""], [_txBodyFilePath |-> "tx.raw"]}}

InitTxId ==
    /\ pc = "txid"
    /\ \E o \in EraChoices, t \in TxIdChoices :
          /\ era = Constructor(o)
          /\ buildOption = o @@ t
    /\ frags = <<>>
    /\ writes = <<>>
    /\ cmds = <<>>
    /\ error = "none"
    /\ ret = ABSENT
    /\ idleTxOut /\ idleMint /\ idleUtxo /\ idleMore

\* the call without its guard: the command is issued whatever the option
CallQueryTransactionId_Unguarded ==
    /\ pc = "txid"
    /\ cmds' = Append(cmds, TxIdCommand(buildOption._cliPath, buildOption))
    /\ pc' = "txidRun"
    /\ UNCHANGED <<moreVars, era, buildOption, frags, writes, error, ret,
                   txOutVars, mintVars, utxoVars>>

\* the call up to its await: the guard of lines 328-330, then the command
CallQueryTransactionId ==
    /\ pc = "txid"
    /\ IF txOption(buildOption) = EMPTY_STRING
       THEN /\ error' = "validation"
            /\ pc' = "rejected"
            /\ cmds' = cmds
       ELSE /\ cmds' = Append(cmds, TxIdCommand(buildOption._cliPath, buildOption))
            /\ pc' = "txidRun"
            /\ error' = error
    /\ UNCHANGED <<moreVars, era, buildOption, frags, writes, ret,
                   txOutVars, mintVars, utxoVars>>

\* the runner resolves and the call returns response.stdout, or the runner
\* rejects and so does the call
ResolveTxId ==
    /\ pc = "txidRun"
    /\ \/ \E stdout \in {"txid1", ""} :
             pc' = "done" /\ ret' = stdout /\ error' = error
       \/ pc' = "rejected" /\ error' = "process" /\ ret' = ret
    /\ UNCHANGED <<moreVars, era, buildOption, frags, writes, cmds,
                   txOutVars, mintVars, utxoVars>>

NextTxId ==
    \/ CallQueryTransactionId
    \/ ResolveTxId

SpecTxId == InitTxId /\ [][NextTxId]_vars

PathSupplied == Truthy(buildOption, "_txFilePath") \/ Truthy(buildOption, "_txBodyFilePath")

C28_TxIdTokensNotFused ==
    \A n \in 1..Len(cmds) :
        LET toks == Split(SubSeq(cmds[n], 7, Len(cmds[n])), SPACE)
        IN  /\ Len(toks) % 2 = 0
            /\ \A k \in 1..Len(toks) :
                  /\ Len(toks[k]) = 1
                  /\ (k % 2 = 1) <=> (toks[k][1] \in {"--tx-file", "--tx-body-file"})

\* C22: the era marker of every build-raw command is --alonzo-era when the
\* constructor's _era is null or undefined, absent when it is the empty
\* string and the caller's marker otherwise; this.era never changes after
\* construction.
EraExpected ==
    IF "_era" \notin DOMAIN buildOption \/ buildOption._era = NULL
    THEN <<"--alonzo-era">> ELSE Str(buildOption._era)

EraInCommand ==
    /\ Str(era) = EraExpected
    /\ \A n \in 1..Len(cmds) :
          /\ SelectSeq(cmds[n], LAMBDA a : a \in EraMarkers) = EraExpected
          /\ cmds[n][9] = "build-raw"
          /\ cmds[n][11] = (IF EraExpected = <<>> THEN " " ELSE EraExpected[1])

C22_EraMarker == []EraInCommand /\ [][era' = era]_vars

\* a command issued by an instance constructed with _era null
C22_Witness ==
    /\ cmds # <<>>
    /\ "_era" \in DOMAIN buildOption /\ buildOption._era = NULL
    /\ cmds[1][11] = "--alonzo-era"

\* C23: the balance QueryWalletInfoAsync returns always holds the lovelace
\* key, with the total lovelace of the records (0 when there is none).
C23_BalanceHasLovelace ==
    (balance # PENDING /\ balance.err = "none")
        => /\ HasKey(balance._balance, LOVELACE)
           /\ Get(balance._balance, LOVELACE) = SumOf(AllEntries(utxos.utxos), LOVELACE)

\* C30: on the same records Utxo2Balance and the balance of
\* QueryWalletInfoAsync are maps with the same keys and the same quantity
\* for every key.
C30_AggregatorsAgree ==
    (balance # PENDING /\ balance.err = "none" /\ utxo2balance # PENDING)
        => /\ Keys(utxo2balance._balance) = Keys(balance._balance)
           /\ AsMap(utxo2balance._balance) = AsMap(balance._balance)
           /\ Len(utxo2balance._balance) = Len(balance._balance)

\* both aggregators have run on records in which an asset is first seen
\* with quantity zero and then again
C30_Witness ==
    /\ balance # PENDING /\ balance.err = "none" /\ utxo2balance # PENDING
    /\ Len(utxos.utxos) = 3
    /\ utxos.utxos[1]._asset2quantity = <<<<"nft2", 3>>, <<"nft1", 0>>>>
    /\ utxos.utxos[2]._asset2quantity = <<<<"nft1", 2>>, <<LOVELACE, 0>>>>
    /\ utxos.utxos[3]._asset2quantity = <<<<LOVELACE, 30>>, <<"nft1", 1>>>>
    /\ AsMap(utxo2balance._balance) = {<<"nft2", 3>>, <<"nft1", 3>>, <<LOVELACE, 30>>}

\* the flag occurs in the command as `<flag> <value>`
FollowedBy(cmd, flag, value) ==
    \E k \in 1..(Len(cmd) - 2) :
        cmd[k] = flag /\ cmd[k + 1] = " " /\ cmd[k + 2] = value

\* the flag occurs once with the slot of the field when the descriptor has
\* the field, and does not occur otherwise
SlotFlag(cmd, flag, field) ==
    IF field \in DOMAIN buildOption
    THEN Count(cmd, flag) = 1 /\ FollowedBy(cmd, flag, ToString(buildOption[field]))
    ELSE Count(cmd, flag) = 0

\* C26: in every build-raw command --script-invalid appears iff the flag is
\* set, --invalid-before <n> iff an invalid-before slot n >= 0 is supplied,
\* --invalid-hereafter <n> iff an invalid-after slot n >= 0 is supplied, and
\* --fee, --out-file, --protocol-params-file appear once with their values.
C26_ValidityFlags ==
    \A n \in 1..Len(cmds) :
        LET cmd == cmds[n]
        IN  /\ Count(cmd, "--script-invalid")
                 = (IF "_scriptInvalid" \in DOMAIN buildOption /\ buildOption._scriptInvalid
                    THEN 1 ELSE 0)
            /\ SlotFlag(cmd, "--invalid-before", "_invalidBefore")
            /\ SlotFlag(cmd, "--invalid-hereafter", "_invalidAfter")
            /\ SlotFlag(cmd, "--fee", "_fee")
            /\ Count(cmd, "--out-file") = 1
            /\ FollowedBy(cmd, "--out-file", txRawBodyOutFilePath)
            /\ Count(cmd, "--protocol-params-file") = 1
            /\ FollowedBy(cmd, "--protocol-params-file", protocolParametersFilePath)

\* C26 for the slots the code takes as supplied (n > 0)
C26_PositiveSlots ==
    (\A f \in {"_invalidBefore", "_invalidAfter"} :
        f \in DOMAIN buildOption => buildOption[f] > 0)
        => C26_ValidityFlags

\* C29: a --mint="..." flag of a build-raw command holds at least one term
\* and is followed by a --mint-script-file; a descriptor whose _mintOptions
\* is absent or empty contributes no mint flag.
C29_MintFlagHasTerms ==
    \A n \in 1..Len(cmds) :
        LET cmd == cmds[n]
        IN  /\ \A k \in 1..Len(cmd) :
                  cmd[k] = "--mint="
                     => /\ k + 2 <= Len(cmd)
                        /\ cmd[k + 1] = "\""
                        /\ cmd[k + 2] # "\""
                        /\ \E j \in (k + 1)..Len(cmd) : cmd[j] = "--mint-script-file"
            /\ ("_mintOptions" \notin DOMAIN buildOption \/ buildOption._mintOptions = <<>>)
                  => Count(cmd, "--mint=") = 0

(***************************************************************************)
(* The input, withdrawal and certificate encoders on their own: every list *)
(* of at most MaxComponents entries over the entries below, and every      *)
(* point at which a write can fail.                                        *)
(***************************************************************************)
MaxComponents == 2

\* the optional datum, redeemer and execution units of an entry
Tails ==
    {<<>>,
     [_datum |-> "d", _redeemer |-> "r", _executionUnits |-> <<10, 20>>],
     [_datum |-> "", _executionUnits |-> <<0, 0>>],
     [_redeemer |-> "r"]}

TxInSet ==
    {b @@ s @@ t :
        b \in {[_txHash |-> "h1", _txIndex |-> 0], [_txHash |-> "h2", _txIndex |-> 1]},
        s \in {<<>>, [_script |-> goodScript], [_script |-> pathOnly]},
        t \in Tails}

WithdrawalSet ==
    {[_stakingAddress |-> "stake1", _reward |-> 3] @@ s @@ t :
        s \in {<<>>, [_scriptOutFilePath |-> "wd.plutus", _scriptOutContent |-> "code"],
               [_scriptOutContent |-> "code"]},
        t \in Tails}

CertSet ==
    {[_cert |-> "stake.cert"] @@ s @@ t :
        s \in {<<>>, [_script |-> [_outFilePath |-> "cert.plutus", _outContent |-> "code"]],
               [_script |-> contentOnly]},
        t \in Tails}

\* the encoder of a kind applied to a list
Encode(kind, list, failAt) ==
    CASE kind = "txIn"       -> _BuildTxInOptionAsync(list, FALSE, failAt)
      [] kind = "collateral" -> _BuildTxInOptionAsync(list, TRUE, failAt)
      [] kind = "withdrawal" -> _BuildWithdrawalOptionAsync(list, failAt)
      [] kind = "cert"       -> _BuildCertOptionAsync(list, failAt)

ComponentSet(kind) ==
    IF kind \in {"txIn", "collateral"} THEN TxInSet
    ELSE IF kind = "withdrawal" THEN WithdrawalSet ELSE CertSet

InitComponent ==
    /\ \E kind \in {"txIn", "collateral", "withdrawal", "cert"} :
         \E list \in Lists(ComponentSet(kind), MaxComponents) :
            \E failAt \in 0..NumWrites(Encode(kind, list, 0)) :
               component = [kind |-> kind, list |-> list, failAt |-> failAt]
    /\ componentRes = PENDING
    /\ utxo2balance = PENDING
    /\ idleBuild /\ idleTxOut /\ idleMint /\ idleUtxo

ApplyTxIn ==
    /\ componentRes = PENDING
    /\ component.kind \in {"txIn", "collateral"}
    /\ componentRes' = _BuildTxInOptionAsync(component.list, component.kind = "collateral",
                                             component.failAt)
    /\ UNCHANGED <<utxo2balance, component, buildVars, txOutVars, mintVars, utxoVars>>

ApplyWithdrawal ==
    /\ componentRes = PENDING
    /\ component.kind = "withdrawal"
    /\ componentRes' = _BuildWithdrawalOptionAsync(component.list, component.failAt)
    /\ UNCHANGED <<utxo2balance, component, buildVars, txOutVars, mintVars, utxoVars>>

ApplyCert ==
    /\ componentRes = PENDING
    /\ component.kind = "cert"
    /\ componentRes' = _BuildCertOptionAsync(component.list, component.failAt)
    /\ UNCHANGED <<utxo2balance, component, buildVars, txOutVars, mintVars, utxoVars>>

NextComponent ==
    \/ ApplyTxIn
    \/ ApplyWithdrawal
    \/ ApplyCert

SpecComponent == InitComponent /\ [][NextComponent]_vars

\* the optional flags of one entry as the format gives them: script-file,
\* datum-value, redeemer-value, execution-units, each only when supplied
OptionalFlags(o, scriptPath, scriptFlag, datumFlag, redeemerFlag, unitsFlag) ==
    (IF scriptPath # <<>> THEN <<" ", scriptFlag, " ">> \o scriptPath ELSE <<>>)
    \o (IF "_datum" \in DOMAIN o /\ o._datum # ""
        THEN <<" ", datumFlag, " ", "'", o._datum, "'">> ELSE <<>>)
    \o (IF "_redeemer" \in DOMAIN o /\ o._redeemer # ""
        THEN <<" ", redeemerFlag, " ", "'", o._redeemer, "'">> ELSE <<>>)
    \o (IF "_executionUnits" \in DOMAIN o
        THEN <<" ", unitsFlag, " ", "\"", "(", ToString(o._executionUnits[1]), ",",
               ToString(o._executionUnits[2]), ")", "\"">>
        ELSE <<>>)

TxInFormat(o, flag) ==
    <<flag, " ", o._txHash, "#", ToString(o._txIndex)>>
    \o OptionalFlags(o, IF "_script" \in DOMAIN o THEN <<o._script._outFilePath>> ELSE <<>>,
                     "--tx-in-script-file", "--tx-in-datum-value",
                     "--tx-in-redeemer-value", "--tx-in-execution-units")

WithdrawalFormat(o) ==
    <<"--withdrawal", " ", o._stakingAddress, "+", ToString(o._reward)>>
    \o OptionalFlags(o, IF "_scriptOutFilePath" \in DOMAIN o
                        THEN <<o._scriptOutFilePath>> ELSE <<>>,
                     "--withdrawal-script-file", "--withdrawal-script-datum-value",
                     "--withdrawal-script-redeemer-value", "--withdrawal-execution-units")

CertFormat(o) ==
    <<"--certificate", " ", o._cert>>
    \o OptionalFlags(o, IF "_script" \in DOMAIN o THEN <<o._script._outFilePath>> ELSE <<>>,
                     "--certificate-script-file", "--certificate-script-datum-value",
                     "--certificate-script-redeemer-value", "--certificate-execution-units")

\* the (path, content) pairs of the scripted entries of a list, in order
ScriptsOf(list, kind) ==
    LET scripted == SelectSeq(list, LAMBDA o :
                        IF kind = "withdrawal" THEN "_scriptOutContent" \in DOMAIN o
                        ELSE "_script" \in DOMAIN o)
    IN  [i \in 1..Len(scripted) |->
            IF kind = "withdrawal"
            THEN [path |-> scripted[i]._scriptOutFilePath,
                  content |-> scripted[i]._scriptOutContent, ok |-> TRUE]
            ELSE [path |-> scripted[i]._script._outFilePath,
                  content |-> scripted[i]._script._outContent, ok |-> TRUE]]

\* every script of the list supplies its path and its content
ScriptsComplete(list, kind) ==
    \A i \in 1..Len(list) :
        IF kind = "withdrawal"
        THEN ("_scriptOutContent" \in DOMAIN list[i]) <=> ("_scriptOutFilePath" \in DOMAIN list[i])
        ELSE "_script" \in DOMAIN list[i] => ~ScriptPairMissing(list[i]._script)

\* the component of a kind has been encoded without error from a list whose
\* scripts are complete
Encoded(kinds) ==
    /\ componentRes # PENDING
    /\ component.kind \in kinds
    /\ ScriptsComplete(component.list, component.kind)
    /\ componentRes.err = "none"

\* C24: the input encoder emits one --tx-in (--tx-in-collateral for
\* collateral) per input, in list order, each followed by only its supplied
\* optional flags in the order script-file, datum-value, redeemer-value,
\* execution-units "(mem,steps)"; each script named has been written to its
\* path with its content, and no flag is returned when a write failed.
C24_TxInFormat ==
    /\ Encoded({"txIn", "collateral"})
          => LET flag == IF component.kind = "collateral"
                         THEN "--tx-in-collateral" ELSE "--tx-in"
                 list == component.list
             IN  /\ componentRes.out
                       = JoinWith([i \in 1..Len(list) |-> TxInFormat(list[i], flag)], <<" ">>)
                 /\ Count(componentRes.out, flag) = Len(list)
                 /\ componentRes.writes = ScriptsOf(list, component.kind)
    /\ (componentRes # PENDING /\ component.kind \in {"txIn", "collateral"}
          /\ componentRes.err # "none")
          => componentRes.out = EMPTY_STRING

\* two collateral inputs, the first with a script and all three values, the
\* second with a redeemer alone, have been encoded
C24_Witness ==
    /\ Encoded({"collateral"})
    /\ Len(component.list) = 2
    /\ "_script" \in DOMAIN component.list[1]
    /\ "_executionUnits" \in DOMAIN component.list[1]
    /\ DOMAIN component.list[2] = {"_txHash", "_txIndex", "_redeemer"}
    /\ Len(componentRes.writes) = 1
    /\ Count(componentRes.out, "--tx-in-collateral") = 2

C25_WitnessCert ==
    /\ Encoded({"cert"})
    /\ Len(component.list) = 1
    /\ "_script" \in DOMAIN component.list[1]
    /\ Count(componentRes.out, "--certificate-script-redeemer-value") = 1

(***************************************************************************)
(* QueryUtxoAsync on a listing with one blank line after the header or     *)
(* among the data rows (cardano-cli.ts 147-155).                           *)
(***************************************************************************)
BlankLines == {<<>>, <<" ">>, <<"\t", " ">>}

\* the listing of the rows with the blank line put after the first k rows
RenderListingWithBlank(rows, k, blank) ==
    JoinWith(InsertAt(<<TitleLine, SeparatorLine>>
                         \o [i \in 1..Len(rows) |-> RenderRow(rows[i])],
                      k + 2, blank),
             <<LINE_FEED>>)

InitBlank ==
    /\ ledger \in Lists(LedgerSet, MaxRows)
    /\ utxo_raw = <<>>
    /\ utxos = PENDING
    /\ balance = PENDING
    /\ reparsed = PENDING
    /\ idleBuild /\ idleTxOut /\ idleMint /\ idleMore

\* the runner returns the listing and the call parses it
QueryBlankListing ==
    /\ utxos = PENDING
    /\ \E k \in 0..Len(ledger), blank \in BlankLines :
          /\ utxo_raw' = RenderListingWithBlank(ledger, k, blank)
          /\ utxos' = ParseUtxo(utxo_raw')
    /\ UNCHANGED <<moreVars, ledger, balance, reparsed, buildVars, txOutVars, mintVars>>

NextBlank == QueryBlankListing

SpecBlank == InitBlank /\ [][NextBlank]_vars

\* C27: a blank line among the data rows is skipped: the call raises no
\* error and returns one record for every non-empty data row, in row order.
C27_BlankLinesSkipped ==
    utxos # PENDING
        => /\ utxos.err = "none"
           /\ Len(utxos.utxos) = Len(ledger)
           /\ \A i \in 1..Len(ledger) :
                 /\ utxos.utxos[i]._txHash = ledger[i]._txHash
                 /\ utxos.utxos[i]._txIndex = ledger[i]._txIndex

\* C27 for a blank line after the last data row, which the trim of the
\* whole text removes
C27_TrailingBlankSkipped ==
    (utxos # PENDING /\ utxo_raw = RenderListingWithBlank(ledger, Len(ledger), <<>>))
        => utxos.err = "none" /\ Len(utxos.utxos) = Len(ledger)

====
